---- MODULE Spec2Model ----
(***************************************************************************)
(* A model of the two scrapers of this repository:                         *)
(*   src/dimakids/dimakids-downloader.py  (selection, resolve, download)   *)
(*   src/stardima/stardima-extract.py     (discovery, resolution, pool)    *)
(* Each subsystem has its own specification over its own variables; the    *)
(* variables of the other subsystems stay at their initial values.         *)
(***************************************************************************)
EXTENDS Integers, Sequences, FiniteSets, TLC

VARIABLES
    \* ---- dimakids: process_page download loop, download_with_custom_progress
    final_download_list, idx, attempt, download_successful, current_url, pc,
    total_segments, tmp, final, downloaded_eps, failed_eps,
    refreshed, failed_url, attempts, xfers, xfer_log, refresh_none, fetch_log,
    links_json, confirm, final_at_start,
    \* ---- stardima: search_episodes
    site, term, episodes, season, ep_num, consecutive_misses, probe_log, spc,
    \* ---- stardima: get_video_urls, fetch_episode, fetch_new_episode,
    \*      resolve_hyperwatching
    rmode, rpc, servers, hyperwatching_url, decoded, hw_queue, results, resolved,
    unwrapped, result, link_log,
    \* ---- stardima: the resolution pool of main and process_new_stardima
    pmode, workers, task, yielded, pool_results, failures, progress, ppc,
    \* ---- stardima: one run of main (discovery, then resolution)
    nmode, url_type, has_ep_id, npc, season_ids, found, to_resolve, n_results,
    skipped, run_state, exit_reason,
    \* ---- dimakids: parse_episode_selection
    user_input, total_episodes, parts, selected_episodes, warnings, selection, sel_pc,
    \* ---- stardima: extract_slug
    url, extracted, xpc,
    \* ---- stardima: download_episode
    episode_servers, preferred_servers, skip_servers, valid_urls, tried, downloaded, dpc,
    \* ---- both scrapers: one network call
    call, server, elapsed, ncpc,
    \* ---- stardima: the sort of the results in main, in two runs
    results_a, results_b, completed_a, completed_b, srpc,
    \* ---- dimakids: the scrape, the selection and the resolution of process_page
    episodes_list, is_movie, user_choice, selected_numbers, sel_i, resolved_list,
    visited, slpc

dlVars == <<final_download_list, idx, attempt, download_successful, current_url, pc,
            total_segments, tmp, final, downloaded_eps, failed_eps,
            refreshed, failed_url, attempts, xfers, xfer_log, refresh_none, fetch_log,
            links_json, confirm, final_at_start>>

seVars == <<site, term, episodes, season, ep_num, consecutive_misses, probe_log, spc>>

rsVars == <<rmode, rpc, servers, hyperwatching_url, decoded, hw_queue, results, resolved,
            unwrapped, result, link_log>>

plVars == <<pmode, workers, task, yielded, pool_results, failures, progress, ppc>>

rnVars == <<nmode, url_type, has_ep_id, npc, season_ids, found, to_resolve, n_results,
            skipped, run_state, exit_reason>>

psVars == <<user_input, total_episodes, parts, selected_episodes, warnings, selection,
            sel_pc>>

xsVars == <<url, extracted, xpc>>

deVars == <<episode_servers, preferred_servers, skip_servers, valid_urls, tried,
            downloaded, dpc>>

ncVars == <<call, server, elapsed, ncpc>>

srVars == <<results_a, results_b, completed_a, completed_b, srpc>>

slVars == <<episodes_list, is_movie, user_choice, selected_numbers, sel_i,
            resolved_list, visited, slpc>>

vars == <<dlVars, seVars, rsVars, plVars, rnVars, psVars, xsVars, deVars, ncVars,
          srVars, slVars>>

\* What each subsystem leaves alone.
NotDL == <<seVars, rsVars, plVars, rnVars, psVars, xsVars, deVars, ncVars, srVars,
           slVars>>
NotSE == <<dlVars, rsVars, plVars, rnVars, psVars, xsVars, deVars, ncVars, srVars,
           slVars>>
NotRS == <<dlVars, seVars, plVars, rnVars, psVars, xsVars, deVars, ncVars, srVars,
           slVars>>
NotPL == <<dlVars, seVars, rsVars, rnVars, psVars, xsVars, deVars, ncVars, srVars,
           slVars>>
NotRN == <<dlVars, seVars, rsVars, plVars, psVars, xsVars, deVars, ncVars, srVars,
           slVars>>
NotPS == <<dlVars, seVars, rsVars, plVars, rnVars, xsVars, deVars, ncVars, srVars,
           slVars>>
NotXS == <<dlVars, seVars, rsVars, plVars, rnVars, psVars, deVars, ncVars, srVars,
           slVars>>
NotDE == <<dlVars, seVars, rsVars, plVars, rnVars, psVars, xsVars, ncVars, srVars,
           slVars>>
NotNC == <<dlVars, seVars, rsVars, plVars, rnVars, psVars, xsVars, deVars, srVars,
           slVars>>
NotSR == <<dlVars, seVars, rsVars, plVars, rnVars, psVars, xsVars, deVars, ncVars,
           slVars>>
NotSL == <<dlVars, seVars, rsVars, plVars, rnVars, psVars, xsVars, deVars, ncVars,
           srVars>>

(***************************************************************************)
(* Bounds of the model.                                                    *)
(***************************************************************************)
MaxItems == 2
MaxUrl == 2
MaxSegments == 3
\* search_episodes: the shows the site can hold
SeasonLen == 12
GapStart == 5
MaxGap == 3
MaxLiveSeasons == 1
\* resolution: wrapper videos the site can point at, servers a wrapper page lists
MaxVideo == 2
MaxServers == 2
\* resolution pool: episodes submitted, worker threads
MaxEpisodes == 3
MaxWorkers == 2
\* one run: season ids a show page can give, episodes the enumeration can find
MaxSeasonIds == 2
MaxFound == 2
\* parse_episode_selection: length of the input, number of scraped episodes
MaxLen == 4
MaxTotal == 3
\* extract_slug: pieces of a URL
MaxUrlLen == 5
\* download_episode: servers of an episode, length of the preferred and skip lists
MaxCandidates == 3
MaxPrefer == 2
MaxSkip == 1
\* network calls: seconds that a call without timeout is watched
MaxWait == 40
\* the sort of the results: results of a run
MaxResults == 3
\* process_page: divs of class 'movie' on a page, largest badge number
MaxScraped == 3
MaxBadge == 4

Range(s) == {s[i] : i \in DOMAIN s}

(***************************************************************************)
(* dimakids: the download loop of process_page                             *)
(***************************************************************************)
max_retries == 3

None == 0
Urls == 1..MaxUrl
\* The links of a page are numbered page by page, in the order in which the
\* page gives them out: the first is the one that lines 183-185 stored in
\* final_download_list, and a later visit for a retry (lines 225-226)
\* returns any link of Urls, the first one again included.  Links of different
\* pages are never compared with each other.
FirstLink == 1
\* A file on disk: the URL of the playlist it was written from (None for a file
\* that an earlier run left), the segments written so far, in order, and the
\* number of segments of that playlist.
\* An earlier run can have left a finished download at the output path.
NoFile == [exists |-> FALSE, src |-> None, segs |-> <<>>, of |-> 0]
OldFile == [exists |-> TRUE, src |-> None, segs |-> <<>>, of |-> 0]
Nums == 1..MaxItems

\* links.json on disk: absent, a document that an earlier run left, or the
\* document that line 200 writes: the title and, for every item of
\* final_download_list, its number and its resolved link (lines 196-198).
NoDocument == [exists |-> FALSE, title |-> "", episodes |-> <<>>]
OldDocument == [exists |-> TRUE, title |-> "old", episodes |-> <<>>]
MutExportData(list) ==
    [exists |-> TRUE, title |-> "title",
     episodes |-> [i \in 1..(Len(list) - 1) |-> list[i].link]]
ExportData(list) ==
    [exists |-> TRUE, title |-> "title",
     episodes |-> [n \in {list[i].num : i \in DOMAIN list} |->
                      list[CHOOSE i \in DOMAIN list : list[i].num = n].link]]

DLInit ==
    /\ \E n \in 1..MaxItems :
          final_download_list = [i \in 1..n |-> [num |-> i, link |-> FirstLink]]
    /\ idx = 1
    /\ attempt = 0
    /\ download_successful = FALSE
    /\ current_url = final_download_list[1].link
    /\ pc = "export"
    /\ links_json \in {NoDocument, OldDocument}
    /\ confirm = ""
    /\ final_at_start = [n \in Nums |-> NoFile]
    /\ total_segments = 0
    /\ tmp = [n \in Nums |-> NoFile]
    /\ final \in [Nums -> {NoFile, OldFile}]
    /\ downloaded_eps = <<>>
    /\ failed_eps = <<>>
    /\ refreshed = None
    /\ failed_url = None
    /\ attempts = [n \in Nums |-> 0]
    /\ xfers = [n \in Nums |-> 0]
    /\ xfer_log = [n \in Nums |-> <<>>]
    /\ refresh_none = [n \in Nums |-> FALSE]
    /\ fetch_log = <<>>

DLIdle ==
    /\ final_download_list = <<>>
    /\ idx = 0
    /\ attempt = 0
    /\ download_successful = FALSE
    /\ current_url = None
    /\ pc = "idle"
    /\ links_json = NoDocument
    /\ confirm = ""
    /\ final_at_start = [n \in Nums |-> NoFile]
    /\ total_segments = 0
    /\ tmp = [n \in Nums |-> NoFile]
    /\ final = [n \in Nums |-> NoFile]
    /\ downloaded_eps = <<>>
    /\ failed_eps = <<>>
    /\ refreshed = None
    /\ failed_url = None
    /\ attempts = [n \in Nums |-> 0]
    /\ xfers = [n \in Nums |-> 0]
    /\ xfer_log = [n \in Nums |-> <<>>]
    /\ refresh_none = [n \in Nums |-> FALSE]
    /\ fetch_log = <<>>

item == final_download_list[idx]

\* The bound of the retry loop: "while not download_successful and attempt < max_retries".
MutRetryGuard == ~download_successful /\ attempt <= max_retries
RetryGuard == ~download_successful /\ attempt < max_retries

\* Lines 241-244 and the "for item" header: record the outcome, take the next item.
MutFinishItem ==
    /\ IF download_successful
          THEN /\ downloaded_eps' = Append(downloaded_eps, item.num)
               /\ UNCHANGED failed_eps
          ELSE /\ failed_eps' = Append(failed_eps, item.num)
               /\ UNCHANGED downloaded_eps
    /\ attempts' = [attempts EXCEPT ![item.num] = attempt]
    /\ IF idx < Len(final_download_list) /\ download_successful
          THEN /\ idx' = idx + 1
               /\ attempt' = 0
               /\ download_successful' = FALSE
               /\ current_url' = final_download_list[idx + 1].link
               /\ pc' = "while"
          ELSE /\ pc' = "done"
               /\ UNCHANGED <<idx, attempt, download_successful, current_url>>
    /\ refreshed' = None
    /\ failed_url' = None
    /\ fetch_log' = <<>>
FinishItem ==
    /\ IF download_successful
          THEN /\ downloaded_eps' = Append(downloaded_eps, item.num)
               /\ UNCHANGED failed_eps
          ELSE /\ failed_eps' = Append(failed_eps, item.num)
               /\ UNCHANGED downloaded_eps
    /\ attempts' = [attempts EXCEPT ![item.num] = attempt]
    /\ IF idx < Len(final_download_list)
          THEN /\ idx' = idx + 1
               /\ attempt' = 0
               /\ download_successful' = FALSE
               /\ current_url' = final_download_list[idx + 1].link
               /\ pc' = "while"
          ELSE /\ pc' = "done"
               /\ UNCHANGED <<idx, attempt, download_successful, current_url>>
    /\ refreshed' = None
    /\ failed_url' = None
    /\ fetch_log' = <<>>

\* Line 220-223: the loop test holds, the attempt is counted.
WhileEnter ==
    /\ pc = "while"
    /\ UNCHANGED NotDL
    /\ RetryGuard
    /\ attempt' = attempt + 1
    /\ pc' = IF attempt + 1 > 1 THEN "refresh" ELSE "download"
    /\ refreshed' = None
    /\ fetch_log' = <<>>
    /\ UNCHANGED <<final_at_start, links_json, confirm, final_download_list, idx,
                   download_successful, current_url, total_segments, tmp, final,
                   downloaded_eps, failed_eps, failed_url, attempts, xfers, xfer_log,
                   refresh_none>>

\* Line 220, 241-244: the loop test fails, the episode's outcome is recorded.
WhileExit ==
    /\ pc = "while"
    /\ UNCHANGED NotDL
    /\ ~RetryGuard
    /\ FinishItem
    /\ UNCHANGED <<final_at_start, links_json, confirm, final_download_list,
                   total_segments, tmp, final, xfers, xfer_log, refresh_none>>

\* Line 227-228: what the loop does with a re-resolved link.
MutUseRefreshed(new_final_url) == current_url' = current_url
UseRefreshed(new_final_url) == current_url' = new_final_url

\* Lines 224-232: the link is re-resolved from the episode's page (get_soup and
\* get_m3u8_link_from_js return None on any failure, they never raise).
RefreshLink ==
    /\ pc = "refresh"
    /\ UNCHANGED NotDL
    /\ \E new_final_url \in Urls \cup {None} :
          /\ refreshed' = new_final_url
          /\ IF new_final_url # None
                THEN /\ UseRefreshed(new_final_url)
                     /\ pc' = "download"
                     /\ UNCHANGED <<idx, attempt, download_successful, downloaded_eps,
                                    failed_eps, attempts, refresh_none, failed_url,
                                    fetch_log>>
                ELSE \* break: the loop is left, download_successful is False
                     /\ refresh_none' = [refresh_none EXCEPT ![item.num] = TRUE]
                     /\ FinishItem
    /\ UNCHANGED <<final_at_start, links_json, confirm, final_download_list,
                   total_segments, tmp, final, xfers, xfer_log>>

\* Lines 109-113 then 238-239: the except block of download_with_custom_progress
\* removes the output file and, when it was created, the temporary file, and
\* re-raises; process_page catches the exception and goes back to the loop test.
MutCleanupAndRaise(had_temp) ==
    /\ final' = [final EXCEPT ![item.num] = NoFile]
    /\ UNCHANGED tmp
    /\ failed_url' = current_url
    /\ xfer_log' = [xfer_log EXCEPT ![item.num] = Append(@, FALSE)]
    /\ pc' = "while"
MutLeaveOutput(had_temp) ==
    /\ UNCHANGED final
    /\ tmp' = IF had_temp THEN [tmp EXCEPT ![item.num] = NoFile] ELSE tmp
    /\ failed_url' = current_url
    /\ xfer_log' = [xfer_log EXCEPT ![item.num] = Append(@, FALSE)]
    /\ pc' = "while"
CleanupAndRaise(had_temp) ==
    /\ final' = [final EXCEPT ![item.num] = NoFile]
    /\ tmp' = IF had_temp THEN [tmp EXCEPT ![item.num] = NoFile] ELSE tmp
    /\ failed_url' = current_url
    /\ xfer_log' = [xfer_log EXCEPT ![item.num] = Append(@, FALSE)]
    /\ pc' = "while"

\* Lines 66-84: the playlist is fetched and split into segment URLs; the
\* temporary file is opened for writing. final_at_start keeps what the output
\* path held when the attempt began.
StartDownload ==
    /\ pc = "download"
    /\ UNCHANGED NotDL
    /\ xfers' = [xfers EXCEPT ![item.num] = @ + 1]
    /\ final_at_start' = [final_at_start EXCEPT ![item.num] = final[item.num]]
    /\ UNCHANGED fetch_log
    /\ \/ \* the playlist request fails, or the playlist has no segment (line 76)
          /\ CleanupAndRaise(FALSE)
          /\ UNCHANGED total_segments
       \/ \E n \in 1..MaxSegments :
             /\ total_segments' = n
             /\ tmp' = [tmp EXCEPT ![item.num] =
                           [exists |-> TRUE, src |-> current_url, segs |-> <<>>, of |-> n]]
             /\ pc' = "segments"
             /\ UNCHANGED <<final, failed_url, xfer_log>>
    /\ UNCHANGED <<links_json, confirm, final_download_list, idx, attempt,
                   download_successful, current_url, downloaded_eps, failed_eps,
                   refreshed, attempts, refresh_none>>

\* Lines 86-87: what a failed segment request does to the attempt.
MutSegmentFailed(i) ==
    /\ fetch_log' = Append(fetch_log, [seg |-> i, ok |-> FALSE])
    /\ pc' = IF i = total_segments THEN "move" ELSE "segments"
    /\ UNCHANGED <<tmp, final, failed_url, xfer_log>>
SegmentFailed(i) ==
    /\ fetch_log' = Append(fetch_log, [seg |-> i, ok |-> FALSE])
    /\ CleanupAndRaise(TRUE)

\* Lines 85-90: one turn of the segment loop.
FetchSegment ==
    /\ pc = "segments"
    /\ UNCHANGED NotDL
    /\ LET i == Len(fetch_log) + 1 IN
          \/ /\ fetch_log' = Append(fetch_log, [seg |-> i, ok |-> TRUE])
             /\ tmp' = [tmp EXCEPT ![item.num].segs = Append(@, i)]
             /\ pc' = IF i = total_segments THEN "move" ELSE "segments"
             /\ UNCHANGED <<final, failed_url, xfer_log>>
          \/ SegmentFailed(i)
    /\ UNCHANGED <<final_at_start, links_json, confirm, final_download_list, idx,
                   attempt, download_successful, current_url, total_segments,
                   downloaded_eps, failed_eps, refreshed, attempts, xfers,
                   refresh_none>>

\* Line 105: the finished temporary file is moved to the output path.
MoveInPlace ==
    /\ final' = [final EXCEPT ![item.num] = tmp[item.num]]
    /\ tmp' = [tmp EXCEPT ![item.num] = NoFile]

\* Lines 105-107 and 236: shutil.move, then True is returned to the loop; a
\* failing move takes the except block.
FinishDownload ==
    /\ pc = "move"
    /\ UNCHANGED NotDL
    /\ \/ /\ MoveInPlace
          /\ download_successful' = TRUE
          /\ xfer_log' = [xfer_log EXCEPT ![item.num] = Append(@, TRUE)]
          /\ pc' = "while"
          /\ UNCHANGED failed_url
       \/ /\ CleanupAndRaise(TRUE)
          /\ UNCHANGED download_successful
    /\ UNCHANGED <<final_at_start, links_json, confirm, final_download_list, idx,
                   attempt, current_url, total_segments, downloaded_eps, failed_eps,
                   refreshed, attempts, xfers, refresh_none, fetch_log>>

\* Lines 193-201: the folder is made and links.json is written; an OSError of
\* makedirs, open or the write leaves process_page (nothing catches it there).
WriteLinks ==
    /\ pc = "export"
    /\ UNCHANGED NotDL
    /\ \/ /\ links_json' = ExportData(final_download_list)
          /\ pc' = "confirm"
       \/ /\ links_json' \in {links_json, [exists |-> TRUE, title |-> "", episodes |-> <<>>]}
          /\ pc' = "raised"
    /\ UNCHANGED <<final_at_start, confirm, final_download_list, idx, attempt,
                   download_successful, current_url, total_segments, tmp, final,
                   downloaded_eps, failed_eps, refreshed, failed_url, attempts, xfers,
                   xfer_log, refresh_none, fetch_log>>

\* Lines 203-206: "Proceed with download?"; anything but y cancels.
Confirm ==
    /\ pc = "confirm"
    /\ UNCHANGED NotDL
    /\ confirm' \in {"y", "n"}
    /\ pc' = IF confirm' = "y" THEN "while" ELSE "cancelled"
    /\ UNCHANGED <<final_at_start, links_json, final_download_list, idx, attempt,
                   download_successful, current_url, total_segments, tmp, final,
                   downloaded_eps, failed_eps, refreshed, failed_url, attempts, xfers,
                   xfer_log, refresh_none, fetch_log>>

DLNext ==
    \/ WriteLinks
    \/ Confirm
    \/ WhileEnter
    \/ WhileExit
    \/ RefreshLink
    \/ StartDownload
    \/ FetchSegment
    \/ FinishDownload


(***************************************************************************)
(* stardima: search_episodes                                               *)
(***************************************************************************)
FirstSeason == 1
LastSeason == 5
LastEpisode == 99
MissLimit == 3
NumTerms == 2

Seasons == FirstSeason..LastSeason

\* What the site holds of one season: episodes 1..len, of which those of the gap
\* [GapStart, GapStart + gap) are missing (the probe returns an empty list) or,
\* with err, are answered by a failing request.
Shapes ==
    {[len |-> 0, gap |-> 0, err |-> FALSE], [len |-> LastEpisode, gap |-> 0, err |-> FALSE]}
    \cup {sh \in [len : {SeasonLen}, gap : 0..MaxGap, err : BOOLEAN] : sh.gap > 0 \/ ~sh.err}
EmptyShape == [len |-> 0, gap |-> 0, err |-> FALSE]

InGap(sh, e) == GapStart <= e /\ e < GapStart + sh.gap

\* The answer to GET /episodes?slug={slug}-{s}x{e}: a non-empty list ("hit"), an
\* empty list ("miss"), or an exception of the request or of resp.json() ("error").
Response(s, e) ==
    LET sh == site[s] IN
    IF e > sh.len THEN "miss"
    ELSE IF InGap(sh, e) THEN (IF sh.err THEN "error" ELSE "miss")
    ELSE "hit"

\* The episode posts of one season, as the ids the API gives them.
Posts(s) == {<<s, e>> : e \in {x \in 1..site[s].len : ~InGap(site[s], x) \/ site[s].err}}

SEInit ==
    /\ site \in {c \in [Seasons -> Shapes] :
                    Cardinality({s \in Seasons : c[s] # EmptyShape}) <= MaxLiveSeasons}
    /\ term = 1
    /\ episodes = {}
    /\ season = FirstSeason
    /\ ep_num = 1
    /\ consecutive_misses = 0
    /\ probe_log = [s \in Seasons |-> <<>>]
    /\ spc = "search"

SEIdle ==
    /\ site = [s \in Seasons |-> EmptyShape]
    /\ term = 0
    /\ episodes = {}
    /\ season = 0
    /\ ep_num = 0
    /\ consecutive_misses = 0
    /\ probe_log = [s \in Seasons |-> <<>>]
    /\ spc = "idle"

\* Lines 238-255: one search term; the posts the search returns that belong to the
\* show are recorded, a failing request is skipped.
SearchTerm ==
    /\ spc = "search"
    /\ UNCHANGED NotSE
    /\ \/ UNCHANGED episodes
       \/ \E s \in Seasons : episodes' = episodes \cup Posts(s)
    /\ IF term < NumTerms
          THEN term' = term + 1 /\ UNCHANGED spc
          ELSE spc' = "probe" /\ UNCHANGED term
    /\ UNCHANGED <<site, season, ep_num, consecutive_misses, probe_log>>

\* Lines 271 and 275: the early exit of a season.
MutStopProbing(misses) == misses > MissLimit
StopProbing(misses) == misses >= MissLimit

\* Line 267: a hit resets the count of misses.
MissesAfterHit(misses) == 0

\* Lines 258, 260: the next season, or the end of the probing.
NextSeason ==
    /\ consecutive_misses' = 0
    /\ ep_num' = 1
    /\ IF season < LastSeason
          THEN season' = season + 1 /\ UNCHANGED spc
          ELSE spc' = "done" /\ UNCHANGED season

\* Lines 260-276: one probe of "{slug}-{season}x{ep_num}".
Probe ==
    /\ spc = "probe"
    /\ UNCHANGED NotSE
    /\ LET r == Response(season, ep_num) IN
          /\ probe_log' = [probe_log EXCEPT ![season] = Append(@, r)]
          /\ IF r = "hit"
                THEN /\ episodes' = episodes \cup {<<season, ep_num>>}
                     /\ IF ep_num < LastEpisode
                           THEN /\ consecutive_misses' = MissesAfterHit(consecutive_misses)
                                /\ ep_num' = ep_num + 1
                                /\ UNCHANGED <<season, spc>>
                           ELSE NextSeason
                ELSE /\ UNCHANGED episodes
                     /\ IF StopProbing(consecutive_misses + 1) \/ ep_num = LastEpisode
                           THEN NextSeason
                           ELSE /\ consecutive_misses' = consecutive_misses + 1
                                /\ ep_num' = ep_num + 1
                                /\ UNCHANGED <<season, spc>>
    /\ UNCHANGED <<site, term>>

SENext ==
    \/ SearchTerm
    \/ Probe


(***************************************************************************)
(* stardima: the Link Resolver (get_video_urls, fetch_episode,             *)
(* fetch_new_episode, resolve_hyperwatching)                               *)
(***************************************************************************)
SERVER_NAMES_STANDARD == <<"vudeo", "uqload", "mailru", "goodstream", "vk">>
SERVER_NAMES_HYPERWATCHING == <<"uqload", "streamhg", "darkibox", "goodstream", "other">>
NumSlots == 5

\* URLs: a direct embed URL of a server slot, an iframe URL of the wrapper
\* ("hyperwatching.com/iframe/{id}"), a watch_url that the wrapper's link API
\* returned for one of its servers, or no URL (None, or an empty string).
Absent == [kind |-> "none", id |-> 0, name |-> ""]
DirectUrl(k) == [kind |-> "direct", id |-> k, name |-> ""]
WrapperUrl(v) == [kind |-> "wrapper", id |-> v, name |-> ""]
LinkUrl(v, n) == [kind |-> "link", id |-> v, name |-> n]
IsWrapper(u) == u.kind = "wrapper"

\* The names a wrapper page can give its servers (lower-cased, line 339).
WrapperNames == {"uqload", "earnvids", "streamhg", "darkibox", "goodstream", "lulustream"}
ServerLists == UNION {[1..n -> WrapperNames] : n \in 0..MaxServers}

EmptyDict == [n \in {} |-> Absent]
Get(d, k) == IF k \in DOMAIN d THEN d[k] ELSE Absent
OrElse(a, b) == IF a # Absent THEN a ELSE b
\* dict(zip(names, values))
DictZip(names, values) ==
    [n \in Range(names) |-> values[CHOOSE i \in DOMAIN names : names[i] = n]]

NoResult == [none |-> TRUE, servers |-> EmptyDict, is_hyperwatching |-> FALSE]

RSInit ==
    /\ rmode \in {"legacy", "new"}
    /\ rpc = IF rmode = "legacy" THEN "slots" ELSE "episode"
    /\ servers = <<>>
    /\ hyperwatching_url = Absent
    /\ decoded = <<>>
    /\ hw_queue = <<>>
    /\ results = EmptyDict
    /\ resolved = EmptyDict
    /\ unwrapped = <<>>
    /\ result = NoResult
    /\ link_log = <<>>

RSIdle ==
    /\ rmode = "idle"
    /\ rpc = "idle"
    /\ servers = <<>>
    /\ hyperwatching_url = Absent
    /\ decoded = <<>>
    /\ hw_queue = <<>>
    /\ results = EmptyDict
    /\ resolved = EmptyDict
    /\ unwrapped = <<>>
    /\ result = NoResult
    /\ link_log = <<>>

\* Lines 404-411: fetch_episode's result for what get_video_urls returned.
FetchEpisodeResult(srv, is_hyperwatching) ==
    [none |-> FALSE,
     servers |-> DictZip(IF is_hyperwatching THEN SERVER_NAMES_HYPERWATCHING
                                             ELSE SERVER_NAMES_STANDARD, srv),
     is_hyperwatching |-> is_hyperwatching]

\* Line 385: when get_video_urls hands the episode to the wrapper unwrapper.
MutDeferToWrapper(srv, hw_url) == hw_url # Absent
DeferToWrapper(srv, hw_url) == hw_url # Absent /\ \A i \in DOMAIN srv : srv[i] = Absent

\* Lines 353-382: one server slot of get_video_urls. The AJAX call fails or
\* gives no embed_url (None), or its decoded embed_url is a direct URL, or it is
\* an iframe URL of the wrapper (None is appended, the URL is kept aside).
\* Lines 384-397: after the last slot the wrapper is resolved, or the slots
\* are returned as they are and fetch_episode builds its result.
AjaxSlot ==
    /\ rpc = "slots"
    /\ UNCHANGED NotRS
    /\ LET k == Len(servers) + 1 IN
       \E u \in {Absent, DirectUrl(k)} \cup {WrapperUrl(v) : v \in 1..MaxVideo} :
          LET srv == Append(servers, IF IsWrapper(u) THEN Absent ELSE u)
              hw == IF IsWrapper(u) THEN u ELSE hyperwatching_url
          IN /\ decoded' = Append(decoded, u)
             /\ servers' = srv
             /\ hyperwatching_url' = hw
             /\ IF k < NumSlots
                   THEN /\ rpc' = "slots"
                        /\ UNCHANGED <<unwrapped, result>>
                   ELSE IF DeferToWrapper(srv, hw)
                   THEN /\ rpc' = "iframe"
                        /\ unwrapped' = Append(unwrapped, hw)
                        /\ UNCHANGED result
                   ELSE /\ rpc' = "done"
                        /\ result' = FetchEpisodeResult(srv, FALSE)
                        /\ UNCHANGED unwrapped
    /\ UNCHANGED <<rmode, hw_queue, results, resolved, link_log>>

\* Lines 184-192: fetch_new_episode's result for a watch_url that is not a
\* wrapper URL.
DirectResult(watch_url) ==
    [none |-> FALSE, servers |-> [n \in {"direct"} |-> watch_url], is_hyperwatching |-> FALSE]

\* Lines 175-183: fetch_new_episode's result for a wrapper URL.
WrappedResult(res) ==
    [none |-> FALSE, servers |-> res, is_hyperwatching |-> TRUE]

\* Lines 160-195: fetch_new_episode asks /series/episode/{id}: the request
\* fails or gives no watch_url (None is returned), or gives a direct URL, or
\* a wrapper URL, which is resolved.
FetchNewEpisode ==
    /\ rpc = "episode"
    /\ UNCHANGED NotRS
    /\ \E u \in {Absent, DirectUrl(1)} \cup {WrapperUrl(v) : v \in 1..MaxVideo} :
          /\ decoded' = Append(decoded, u)
          /\ IF IsWrapper(u)
                THEN /\ hyperwatching_url' = u
                     /\ unwrapped' = Append(unwrapped, u)
                     /\ rpc' = "iframe"
                     /\ UNCHANGED result
                ELSE /\ result' = IF u = Absent THEN NoResult ELSE DirectResult(u)
                     /\ rpc' = "done"
                     /\ UNCHANGED <<hyperwatching_url, unwrapped>>
    /\ UNCHANGED <<rmode, servers, hw_queue, results, resolved, link_log>>

\* Lines 315, 343, 345: the last-resort mapping back to the iframe URL.
Fallback(iframe_url) == [n \in {"hyperwatching"} |-> iframe_url]

\* Line 343: what resolve_hyperwatching returns after its server loop.
MutResolvedOf(res, iframe_url) == res
ResolvedOf(res, iframe_url) == IF res # EmptyDict THEN res ELSE Fallback(iframe_url)

\* Lines 300-319: resolve_hyperwatching fetches the iframe page: the request
\* fails (line 345) or the page has no server list (line 315), or the page
\* lists servers.
FetchIframe ==
    /\ rpc = "iframe"
    /\ UNCHANGED NotRS
    /\ \/ /\ resolved' = Fallback(hyperwatching_url)
          /\ rpc' = "resolved"
          /\ UNCHANGED <<hw_queue, results>>
       \/ \E q \in ServerLists :
             /\ results' = EmptyDict
             /\ IF q = <<>>
                   THEN /\ resolved' = ResolvedOf(EmptyDict, hyperwatching_url)
                        /\ rpc' = "resolved"
                        /\ UNCHANGED hw_queue
                   ELSE /\ hw_queue' = q
                        /\ rpc' = "links"
                        /\ UNCHANGED resolved
    /\ UNCHANGED <<rmode, servers, hyperwatching_url, decoded, unwrapped, result, link_log>>

\* Lines 324-343: one link request of resolve_hyperwatching; a failing request
\* or an answer without watch_url leaves the server out. link_log keeps the
\* requests that were made and how each ended.
LinkRequest ==
    /\ rpc = "links"
    /\ UNCHANGED NotRS
    /\ LET sname == Head(hw_queue) IN
       \E ok \in BOOLEAN :
          LET res == IF ok
                        THEN [n \in DOMAIN results \cup {sname} |->
                                 IF n = sname THEN LinkUrl(hyperwatching_url.id, sname)
                                              ELSE results[n]]
                        ELSE results
          IN /\ results' = res
             /\ link_log' = Append(link_log, <<sname, ok>>)
             /\ hw_queue' = Tail(hw_queue)
             /\ IF Tail(hw_queue) = <<>>
                   THEN /\ resolved' = ResolvedOf(res, hyperwatching_url)
                        /\ rpc' = "resolved"
                   ELSE UNCHANGED <<resolved, rpc>>
    /\ UNCHANGED <<rmode, servers, hyperwatching_url, decoded, unwrapped, result>>

\* Lines 388-394: the unwrapper's names put on the 5 positions.
MutRemap(res) ==
    << Get(res, "uqload"),
       OrElse(Get(res, "streamhg"), Get(res, "earnvids")),
       Get(res, "darkibox"),
       Get(res, "goodstream"),
       Get(res, "hyperwatching") >>
Remap(res) ==
    << Get(res, "uqload"),
       OrElse(Get(res, "earnvids"), Get(res, "streamhg")),
       Get(res, "darkibox"),
       Get(res, "goodstream"),
       Get(res, "hyperwatching") >>

\* Lines 386-395 and 404-411 (legacy), 175-183 (new): the caller of
\* resolve_hyperwatching builds the episode's result.
ReturnResolved ==
    /\ rpc = "resolved"
    /\ UNCHANGED NotRS
    /\ IF rmode = "legacy"
          THEN /\ servers' = Remap(resolved)
               /\ result' = FetchEpisodeResult(Remap(resolved), TRUE)
          ELSE /\ result' = WrappedResult(resolved)
               /\ UNCHANGED servers
    /\ rpc' = "done"
    /\ UNCHANGED <<rmode, hyperwatching_url, decoded, hw_queue, results, resolved, unwrapped,
                   link_log>>

RSNext ==
    \/ AjaxSlot
    \/ FetchNewEpisode
    \/ FetchIframe
    \/ LinkRequest
    \/ ReturnResolved

(***************************************************************************)
(* stardima: the resolution pool (main lines 601-615, process_new_stardima *)
(* lines 521-540)                                                          *)
(***************************************************************************)
\* What a task can return: fetch_episode always returns a result (whose
\* servers may all be None); fetch_new_episode returns a result or None.
Outcomes(mode) == IF mode = "legacy" THEN {"ok", "empty"} ELSE {"ok", "none"}

PLInit ==
    /\ pmode \in {"legacy", "new"}
    /\ workers \in 1..MaxWorkers
    /\ \E n \in 1..MaxEpisodes : task = [e \in 1..n |-> [st |-> "pending", out |-> "-"]]
    /\ yielded = <<>>
    /\ pool_results = <<>>
    /\ failures = 0
    /\ progress = <<>>
    /\ ppc = "collect"

PLIdle ==
    /\ pmode = "idle"
    /\ workers = 0
    /\ task = <<>>
    /\ yielded = <<>>
    /\ pool_results = <<>>
    /\ failures = 0
    /\ progress = <<>>
    /\ ppc = "idle"

Running == {e \in DOMAIN task : task[e].st = "running"}

\* ThreadPoolExecutor: a free worker thread takes a submitted task.
StartTask(e) ==
    /\ ppc = "collect"
    /\ UNCHANGED NotPL
    /\ task[e].st = "pending"
    /\ Cardinality(Running) < workers
    /\ task' = [task EXCEPT ![e].st = "running"]
    /\ UNCHANGED <<pmode, workers, yielded, pool_results, failures, progress, ppc>>

\* The task returns: fetch_episode (lines 400-411) or fetch_new_episode
\* (lines 158-195), which catch every exception of their requests.
FinishTask(e) ==
    /\ ppc = "collect"
    /\ UNCHANGED NotPL
    /\ task[e].st = "running"
    /\ \E o \in Outcomes(pmode) : task' = [task EXCEPT ![e] = [st |-> "finished", out |-> o]]
    /\ UNCHANGED <<pmode, workers, yielded, pool_results, failures, progress, ppc>>

\* Lines 610-611 and 530-537: what the collecting loop does with a task's value.
MutKeep(mode, out) == TRUE
Keep(mode, out) == mode = "legacy" \/ out # "none"

\* Lines 609-613 and 529-537: as_completed yields a finished future that it has
\* not yielded yet; its value is appended to results, or counted as failed.
Collect(e) ==
    /\ ppc = "collect"
    /\ UNCHANGED NotPL
    /\ task[e].st = "finished"
    /\ e \notin Range(yielded)
    /\ yielded' = Append(yielded, e)
    /\ progress' = Append(progress, Len(yielded) + 1)
    /\ IF Keep(pmode, task[e].out)
          THEN /\ pool_results' = Append(pool_results, [post_id |-> e, out |-> task[e].out])
               /\ UNCHANGED failures
          ELSE /\ failures' = failures + 1
               /\ UNCHANGED pool_results
    /\ UNCHANGED <<pmode, workers, task, ppc>>

\* The end of "for i, future in enumerate(as_completed(futures))".
MutPassOver == Range(yielded) = DOMAIN task \/ failures > 0
PassOver == Range(yielded) = DOMAIN task

\* Lines 615 and 539-540: the loop and the with block are left.
EndPass ==
    /\ ppc = "collect"
    /\ UNCHANGED NotPL
    /\ PassOver
    /\ ppc' = "done"
    /\ UNCHANGED <<pmode, workers, task, yielded, pool_results, failures, progress>>

PLNext ==
    \/ \E e \in DOMAIN task : StartTask(e)
    \/ \E e \in DOMAIN task : FinishTask(e)
    \/ \E e \in DOMAIN task : Collect(e)
    \/ EndPass

(***************************************************************************)
(* stardima: one run of main, as the sequence of its network sub-requests  *)
(***************************************************************************)
\* The requests that are made inside a try block: a failure is skipped.
GuardedKinds == {"new_show_page", "season_detail", "search", "slug_probe",
                 "episode", "slot_ajax", "wrapper"}

RNInit ==
    /\ nmode \in {"legacy", "new"}
    /\ url_type \in (IF nmode = "legacy" THEN {"tvshow", "episode"} ELSE {"new_stardima"})
    /\ has_ep_id \in (IF nmode = "legacy" THEN {FALSE} ELSE BOOLEAN)
    /\ npc = IF nmode = "legacy" THEN "show_info" ELSE "new_show"
    /\ season_ids = 0
    /\ found = 0
    /\ to_resolve = 0
    /\ n_results = 0
    /\ skipped = {}
    /\ run_state = "running"
    /\ exit_reason = ""

RNIdle ==
    /\ nmode = "idle"
    /\ url_type = ""
    /\ has_ep_id = FALSE
    /\ npc = "idle"
    /\ season_ids = 0
    /\ found = 0
    /\ to_resolve = 0
    /\ n_results = 0
    /\ skipped = {}
    /\ run_state = "idle"
    /\ exit_reason = ""

\* An exception that nothing catches ends the process with a traceback.
Crash(kind) ==
    /\ run_state' = "crashed"
    /\ exit_reason' = kind
    /\ npc' = "end"

\* sys.exit(1)
Exit1(reason) ==
    /\ run_state' = "exit1"
    /\ exit_reason' = reason
    /\ npc' = "end"

\* Lines 201-208 and 582-585: get_show_info's first request is made outside any
\* try block; an empty answer for a URL that is not an episode URL gives None
\* and main exits with "Show not found".
GetShowInfo ==
    /\ npc = "show_info"
    /\ UNCHANGED NotRN
    /\ \/ Crash("show_info")
       \/ /\ npc' = "search"
          /\ UNCHANGED <<run_state, exit_reason>>
       \/ IF url_type = "episode"
             THEN /\ npc' = "show_info_episode"
                  /\ UNCHANGED <<run_state, exit_reason>>
             ELSE Exit1("show_not_found")
    /\ UNCHANGED <<nmode, url_type, has_ep_id, season_ids, found, to_resolve, n_results,
                   skipped>>

\* Lines 211-225 and 582-585: the second request of get_show_info, for the
\* show's first episode, also outside any try block.
GetShowInfoFromEpisode ==
    /\ npc = "show_info_episode"
    /\ UNCHANGED NotRN
    /\ \/ Crash("show_info")
       \/ /\ npc' = "search"
          /\ UNCHANGED <<run_state, exit_reason>>
       \/ Exit1("show_not_found")
    /\ UNCHANGED <<nmode, url_type, has_ep_id, season_ids, found, to_resolve, n_results,
                   skipped>>

\* Lines 592-597: search_episodes returns what it found, whatever requests of
\* it failed (every request of it is inside a try block); main exits when it
\* found nothing.
SearchEpisodes ==
    /\ npc = "search"
    /\ UNCHANGED NotRN
    /\ \E n \in 0..MaxFound, failed \in SUBSET {"search", "slug_probe"} :
          /\ found' = n
          /\ skipped' = skipped \cup failed
          /\ IF n = 0
                THEN /\ Exit1("no_episodes")
                     /\ UNCHANGED to_resolve
                ELSE /\ npc' = "resolve"
                     /\ to_resolve' = n
                     /\ UNCHANGED <<run_state, exit_reason>>
    /\ UNCHANGED <<nmode, url_type, has_ep_id, season_ids, n_results>>

\* Lines 494-496 and 62-101: get_new_stardima_show makes its requests inside a
\* try block; None is replaced by a show without season ids.
GetNewShow ==
    /\ npc = "new_show"
    /\ UNCHANGED NotRN
    /\ \/ /\ season_ids' = 0
          /\ skipped' = skipped \cup {"new_show_page"}
       \/ /\ season_ids' \in 0..MaxSeasonIds
          /\ UNCHANGED skipped
    /\ npc' = "new_episodes"
    /\ UNCHANGED <<nmode, url_type, has_ep_id, found, to_resolve, n_results, run_state,
                   exit_reason>>

\* Lines 129-132: what get_new_stardima_episodes does when the request of the
\* show page for the season ids fails: the request is outside any try block.
ShowPageFailed ==
    /\ Crash("show_page")
    /\ UNCHANGED <<season_ids, skipped>>

\* Lines 129-132: get_new_stardima_episodes without season ids fetches the show
\* page and takes the season ids from it.
GetSeasonIds ==
    /\ npc = "new_episodes"
    /\ UNCHANGED NotRN
    /\ IF season_ids # 0
          THEN /\ npc' = "seasons"
               /\ UNCHANGED <<season_ids, skipped, run_state, exit_reason>>
          ELSE \/ ShowPageFailed
               \/ /\ season_ids' \in 0..MaxSeasonIds
                  /\ npc' = "seasons"
                  /\ UNCHANGED <<skipped, run_state, exit_reason>>
    /\ UNCHANGED <<nmode, url_type, has_ep_id, found, to_resolve, n_results>>

\* Lines 134-153: one season-detail request, inside a try block.
SeasonDetail ==
    /\ npc = "seasons"
    /\ UNCHANGED NotRN
    /\ season_ids > 0
    /\ season_ids' = season_ids - 1
    /\ \/ /\ skipped' = skipped \cup {"season_detail"}
          /\ UNCHANGED found
       \/ /\ \E n \in 0..1 : found' = IF found + n <= MaxFound THEN found + n ELSE found
          /\ UNCHANGED skipped
    /\ UNCHANGED <<nmode, url_type, has_ep_id, npc, to_resolve, n_results, run_state,
                   exit_reason>>

\* Lines 509-517: without episodes a single episode is made up from the URL's
\* episode id; the run exits when there is still none.
CheckEpisodes ==
    /\ npc = "seasons"
    /\ UNCHANGED NotRN
    /\ season_ids = 0
    /\ LET n == IF found = 0 /\ has_ep_id THEN 1 ELSE found IN
          /\ found' = n
          /\ IF n = 0
                THEN /\ Exit1("no_episodes")
                     /\ UNCHANGED to_resolve
                ELSE /\ npc' = "resolve"
                     /\ to_resolve' = n
                     /\ UNCHANGED <<run_state, exit_reason>>
    /\ UNCHANGED <<nmode, url_type, has_ep_id, season_ids, n_results, skipped>>

\* Lines 603-613 and 523-537: one episode is resolved; every request of
\* fetch_episode, get_video_urls, resolve_hyperwatching and fetch_new_episode
\* is inside a try block. fetch_new_episode returns None when its request
\* fails, and the episode is counted as failed.
ResolveEpisode ==
    /\ npc = "resolve"
    /\ UNCHANGED NotRN
    /\ to_resolve > 0
    /\ to_resolve' = to_resolve - 1
    /\ IF nmode = "legacy"
          THEN /\ \E failed \in SUBSET {"slot_ajax", "wrapper"} :
                     skipped' = skipped \cup failed
               /\ n_results' = n_results + 1
          ELSE \/ /\ skipped' = skipped \cup {"episode"}
                  /\ UNCHANGED n_results
               \/ /\ \E failed \in SUBSET {"wrapper"} : skipped' = skipped \cup failed
                  /\ n_results' = n_results + 1
    /\ UNCHANGED <<nmode, url_type, has_ep_id, npc, season_ids, found, run_state,
                   exit_reason>>

\* Lines 617-698: the results are sorted and written; main returns.
FinishRun ==
    /\ npc = "resolve"
    /\ UNCHANGED NotRN
    /\ to_resolve = 0
    /\ run_state' = "finished"
    /\ npc' = "end"
    /\ UNCHANGED <<nmode, url_type, has_ep_id, season_ids, found, to_resolve, n_results,
                   skipped, exit_reason>>

RNNext ==
    \/ GetShowInfo
    \/ GetShowInfoFromEpisode
    \/ SearchEpisodes
    \/ GetNewShow
    \/ GetSeasonIds
    \/ SeasonDetail
    \/ CheckEpisodes
    \/ ResolveEpisode
    \/ FinishRun

(***************************************************************************)
(* dimakids: parse_episode_selection                                       *)
(***************************************************************************)
\* The characters an input is made of in the model.
Digits == <<"0", "1", "2", "3", "4", "5", "6", "7", "8", "9">>
Alphabet == {"1", "2", "-", ",", " ", "a", "l", "A"}
Inputs == UNION {[1..n -> Alphabet] : n \in 0..MaxLen}

IsDigit(c) == \E i \in DOMAIN Digits : Digits[i] = c
DigitValue(c) == (CHOOSE i \in DOMAIN Digits : Digits[i] = c) - 1

\* str.lower()
LowerChar(c) == IF c = "A" THEN "a" ELSE c
Lower(str) == [i \in DOMAIN str |-> LowerChar(str[i])]

\* str.replace(' ', '')
NotSpace(c) == c # " "
RemoveSpaces(str) == SelectSeq(str, NotSpace)

\* str.split(sep): the pieces between the separators, empty pieces included.
RECURSIVE Split(_, _)
Split(str, sep) ==
    IF \A i \in DOMAIN str : str[i] # sep THEN <<str>>
    ELSE LET k == CHOOSE i \in DOMAIN str :
                      str[i] = sep /\ \A j \in 1..(i - 1) : str[j] # sep
         IN <<SubSeq(str, 1, k - 1)>> \o Split(SubSeq(str, k + 1, Len(str)), sep)

\* int(piece) of a piece without '-' and without spaces: a ValueError unless the
\* piece is a non-empty string of digits.
IsInt(piece) == piece # <<>> /\ \A i \in DOMAIN piece : IsDigit(piece[i])
RECURSIVE ToInt(_)
ToInt(piece) ==
    IF piece = <<>> THEN 0
    ELSE 10 * ToInt(SubSeq(piece, 1, Len(piece) - 1)) + DigitValue(piece[Len(piece)])

\* Lines 124 and 127: "if 1 <= i <= total_episodes".
MutInRange(i, total) == 1 <= i /\ i <= total + 1
InRange(i, total) == 1 <= i /\ i <= total

HasDash(part) == \E i \in DOMAIN part : part[i] = "-"

\* Lines 121-122 and 126: whether the part raises ValueError: a part with '-'
\* must split into exactly two integers, a part without must be an integer.
RaisesValueError(part) ==
    IF HasDash(part)
       THEN LET pieces == Split(part, "-") IN
            ~(Len(pieces) = 2 /\ IsInt(pieces[1]) /\ IsInt(pieces[2]))
       ELSE ~IsInt(part)

\* Lines 121-127: the numbers one part adds to selected_episodes.
Selected(part, total) ==
    IF RaisesValueError(part) THEN {}
    ELSE IF HasDash(part)
       THEN LET pieces == Split(part, "-") IN
            {i \in ToInt(pieces[1])..ToInt(pieces[2]) : InRange(i, total)}
       ELSE {i \in {ToInt(part)} : InRange(i, total)}

\* sorted(list(S))
RECURSIVE Sorted(_)
Sorted(S) ==
    IF S = {} THEN <<>>
    ELSE LET m == CHOOSE x \in S : \A y \in S : x <= y IN <<m>> \o Sorted(S \ {m})

PSInit ==
    /\ user_input \in Inputs
    /\ total_episodes \in 0..MaxTotal
    /\ parts = <<>>
    /\ selected_episodes = {}
    /\ warnings = <<>>
    /\ selection = <<>>
    /\ sel_pc = "call"

PSIdle ==
    /\ user_input = <<>>
    /\ total_episodes = 0
    /\ parts = <<>>
    /\ selected_episodes = {}
    /\ warnings = <<>>
    /\ selection = <<>>
    /\ sel_pc = "idle"

\* Lines 117-119: 'all' returns list(range(1, total_episodes + 1)); any other
\* input is stripped of its spaces and split at the commas.
EnterParse ==
    /\ sel_pc = "call"
    /\ UNCHANGED NotPS
    /\ IF Lower(user_input) = <<"a", "l", "l">>
          THEN /\ selection' = [i \in 1..total_episodes |-> i]
               /\ sel_pc' = "returned"
               /\ UNCHANGED parts
          ELSE /\ parts' = Split(RemoveSpaces(user_input), ",")
               /\ sel_pc' = "loop"
               /\ UNCHANGED selection
    /\ UNCHANGED <<user_input, total_episodes, selected_episodes, warnings>>

\* Lines 119-128: one part of the input; a ValueError is answered by a warning
\* and the loop goes on.
ParsePart ==
    /\ sel_pc = "loop"
    /\ UNCHANGED NotPS
    /\ parts # <<>>
    /\ LET part == Head(parts) IN
          /\ selected_episodes' = selected_episodes \cup Selected(part, total_episodes)
          /\ warnings' = IF RaisesValueError(part) THEN Append(warnings, part) ELSE warnings
    /\ parts' = Tail(parts)
    /\ UNCHANGED <<user_input, total_episodes, selection, sel_pc>>

\* Line 129: return sorted(list(selected_episodes)).
ReturnSelection ==
    /\ sel_pc = "loop"
    /\ UNCHANGED NotPS
    /\ parts = <<>>
    /\ selection' = Sorted(selected_episodes)
    /\ sel_pc' = "returned"
    /\ UNCHANGED <<user_input, total_episodes, parts, selected_episodes, warnings>>

PSNext ==
    \/ EnterParse
    \/ ParsePart
    \/ ReturnSelection

(***************************************************************************)
(* stardima: extract_slug (lines 39-59)                                    *)
(***************************************************************************)
\* A URL is a sequence of pieces: the pieces that the three patterns name, the
\* '/' that ends a slug, and pieces of slug text.
UrlPieces == {"www.stardima.com", "/tvshow/", "/tvshows/", "/episodes/", "/play/",
              "/", "witch", "7", "-1x1"}
UrlInputs == UNION {[1..n -> UrlPieces] : n \in 0..MaxUrlLen}

\* What a pattern group gives when it did not take part, and the slug of the
\* no-match tuple.
NoGroup == <<"None">>

\* [^/]: a piece that does not begin with '/'.
NotSlash(c) == c \notin {"/", "/tvshow/", "/tvshows/", "/episodes/", "/play/"}
\* [^/#?]
SlugChar(c) == NotSlash(c) /\ c # "#"
\* \d
Digit(c) == c = "7"

\* The end of the longest run of pieces of one class that starts at i (a greedy
\* "+" group).
InClass(c, class) ==
    CASE class = "[^/]" -> NotSlash(c)
      [] class = "[^/#?]" -> SlugChar(c)
      [] class = "\\d" -> Digit(c)
RunEnd(str, i, class) ==
    CHOOSE j \in (i - 1)..Len(str) :
        /\ \A k \in i..j : InClass(str[k], class)
        /\ j = Len(str) \/ ~InClass(str[j + 1], class)

\* Line 42: re.search(r'www\.stardima\.com/tvshow/([^/]+)(?:/play/(\d+))?', url)
NewSiteAt(str, i) ==
    /\ i + 2 <= Len(str)
    /\ str[i] = "www.stardima.com"
    /\ str[i + 1] = "/tvshow/"
    /\ NotSlash(str[i + 2])
NewSiteMatches(str) == \E i \in DOMAIN str : NewSiteAt(str, i)
NewSiteGroups(str) ==
    LET i == CHOOSE i \in DOMAIN str :
                 NewSiteAt(str, i) /\ \A h \in 1..(i - 1) : ~NewSiteAt(str, h)
        j == RunEnd(str, i + 2, "[^/]")
        played == j + 2 <= Len(str) /\ str[j + 1] = "/play/" /\ Digit(str[j + 2])
    IN  <<SubSeq(str, i + 2, j),
          IF played THEN SubSeq(str, j + 2, RunEnd(str, j + 2, "\\d")) ELSE NoGroup>>

\* Lines 47 and 52: re.search(r'/tvshows/([^/#?]+)', url) and
\* re.search(r'/episodes/([^/#?]+)', url)
LegacyAt(str, i, word) ==
    /\ i + 1 <= Len(str)
    /\ str[i] = word
    /\ SlugChar(str[i + 1])
LegacyMatches(str, word) == \E i \in DOMAIN str : LegacyAt(str, i, word)
LegacyGroup(str, word) ==
    LET i == CHOOSE i \in DOMAIN str :
                 LegacyAt(str, i, word) /\ \A h \in 1..(i - 1) : ~LegacyAt(str, h, word)
    IN  SubSeq(str, i + 1, RunEnd(str, i + 1, "[^/#?]"))

\* Line 56: re.sub(r'-\d+x\d+$', '', episode_slug)
SuffixAt(str, i) == str[i] = "-1x1" /\ \A k \in (i + 1)..Len(str) : Digit(str[k])
StripSuffix(str) ==
    IF \E i \in DOMAIN str : SuffixAt(str, i)
       THEN SubSeq(str, 1, (CHOOSE i \in DOMAIN str : SuffixAt(str, i)) - 1)
       ELSE str

\* Lines 42-59: the number of the first pattern that matches, 0 for none.
MutFirstMatcher(str) ==
    IF LegacyMatches(str, "/tvshows/") THEN 2
    ELSE IF NewSiteMatches(str) THEN 1
    ELSE IF LegacyMatches(str, "/episodes/") THEN 3
    ELSE 0
FirstMatcher(str) ==
    IF NewSiteMatches(str) THEN 1
    ELSE IF LegacyMatches(str, "/tvshows/") THEN 2
    ELSE IF LegacyMatches(str, "/episodes/") THEN 3
    ELSE 0

XSInit ==
    /\ url \in UrlInputs
    /\ extracted = [slug |-> NoGroup, url_type |-> "None", ep_id |-> NoGroup]
    /\ xpc = "call"

XSIdle ==
    /\ url = <<>>
    /\ extracted = [slug |-> NoGroup, url_type |-> "None", ep_id |-> NoGroup]
    /\ xpc = "idle"

\* Lines 42-44
ReturnNewSite ==
    /\ xpc = "call"
    /\ UNCHANGED NotXS
    /\ FirstMatcher(url) = 1
    /\ extracted' = [slug |-> NewSiteGroups(url)[1], url_type |-> "new_stardima",
                     ep_id |-> NewSiteGroups(url)[2]]
    /\ xpc' = "returned"
    /\ UNCHANGED url

\* Lines 47-49
ReturnTvshow ==
    /\ xpc = "call"
    /\ UNCHANGED NotXS
    /\ FirstMatcher(url) = 2
    /\ extracted' = [slug |-> LegacyGroup(url, "/tvshows/"), url_type |-> "tvshow",
                     ep_id |-> NoGroup]
    /\ xpc' = "returned"
    /\ UNCHANGED url

\* Lines 52-57
ReturnEpisode ==
    /\ xpc = "call"
    /\ UNCHANGED NotXS
    /\ FirstMatcher(url) = 3
    /\ extracted' = [slug |-> StripSuffix(LegacyGroup(url, "/episodes/")),
                     url_type |-> "episode", ep_id |-> NoGroup]
    /\ xpc' = "returned"
    /\ UNCHANGED url

\* Line 59
ReturnNoMatch ==
    /\ xpc = "call"
    /\ UNCHANGED NotXS
    /\ FirstMatcher(url) = 0
    /\ extracted' = [slug |-> NoGroup, url_type |-> "None", ep_id |-> NoGroup]
    /\ xpc' = "returned"
    /\ UNCHANGED url

XSNext ==
    \/ ReturnNewSite
    \/ ReturnTvshow
    \/ ReturnEpisode
    \/ ReturnNoMatch

(***************************************************************************)
(* stardima: download_episode (lines 424-484)                              *)
(***************************************************************************)
\* The episode's servers in discovery order (the order of the servers dict):
\* the first names of the standard set, each with a URL or with None.
EpisodeServers ==
    UNION {[1..n -> BOOLEAN] : n \in 0..MaxCandidates}
\* What the caller can name in --prefer-servers and --skip-servers.
NamedServers == {"vudeo", "Uqload", "mailru"}
PreferLists == UNION {[1..n -> NamedServers] : n \in 0..MaxPrefer}
SkipLists == UNION {[1..n -> NamedServers] : n \in 0..MaxSkip}

\* str.lower() of a server name
LowerName(n) == IF n = "Uqload" THEN "uqload" ELSE n

\* Line 430: the (name, url) pairs whose URL is not None or empty.
WithUrl(has_url) ==
    [k \in 1..Cardinality({i \in DOMAIN has_url : has_url[i]}) |->
        SERVER_NAMES_STANDARD[
            CHOOSE i \in DOMAIN has_url :
                has_url[i] /\ Cardinality({h \in 1..i : has_url[h]}) = k]]

\* Lines 433-435: the pairs whose name is not in skip_set.
NotSkipped(names, skip) ==
    LET Kept(n) == \A i \in DOMAIN skip : LowerName(skip[i]) # LowerName(n) IN
    SelectSeq(names, Kept)

\* Lines 439-440: pref_order = {s.lower(): i for i, s in enumerate(preferred)}
\* and the sort key pref_order.get(name.lower(), 999).
NotPreferred == 999
MutPrefKey(n, preferred) == NotPreferred
PrefKey(n, preferred) ==
    LET at == {i \in DOMAIN preferred : LowerName(preferred[i]) = LowerName(n)} IN
    IF at = {} THEN NotPreferred
    ELSE (CHOOSE i \in at : \A h \in at : h <= i) - 1

\* list.sort(key=...): a stable sort.
RECURSIVE SortByPref(_, _)
SortByPref(names, preferred) ==
    IF names = <<>> THEN <<>>
    ELSE LET k == CHOOSE i \in DOMAIN names :
                     /\ \A h \in DOMAIN names :
                            PrefKey(names[i], preferred) <= PrefKey(names[h], preferred)
                     /\ \A h \in 1..(i - 1) :
                            PrefKey(names[h], preferred) # PrefKey(names[i], preferred)
             rest == [h \in 1..(Len(names) - 1) |-> IF h < k THEN names[h] ELSE names[h + 1]]
         IN <<names[k]>> \o SortByPref(rest, preferred)

DEInit ==
    /\ episode_servers \in EpisodeServers
    /\ preferred_servers \in PreferLists
    /\ skip_servers \in SkipLists
    /\ valid_urls = <<>>
    /\ tried = <<>>
    /\ downloaded = "pending"
    /\ dpc = "call"

DEIdle ==
    /\ episode_servers = <<>>
    /\ preferred_servers = <<>>
    /\ skip_servers = <<>>
    /\ valid_urls = <<>>
    /\ tried = <<>>
    /\ downloaded = "pending"
    /\ dpc = "idle"

\* Lines 426-444: the candidates are filtered and sorted; without a candidate
\* the episode fails at once.
Candidates ==
    /\ dpc = "call"
    /\ UNCHANGED NotDE
    /\ LET sorted == SortByPref(NotSkipped(WithUrl(episode_servers), skip_servers),
                                preferred_servers)
       IN /\ valid_urls' = sorted
          /\ IF sorted = <<>>
                THEN /\ downloaded' = "False"
                     /\ dpc' = "returned"
                ELSE /\ dpc' = "loop"
                     /\ UNCHANGED downloaded
    /\ UNCHANGED <<episode_servers, preferred_servers, skip_servers, tried>>

\* Lines 452-481: the next candidate is tried with yt-dlp; success returns
\* True, an exception goes on to the next candidate.
TryServer ==
    /\ dpc = "loop"
    /\ UNCHANGED NotDE
    /\ Len(tried) < Len(valid_urls)
    /\ \E ok \in BOOLEAN :
          /\ tried' = Append(tried, <<valid_urls[Len(tried) + 1], ok>>)
          /\ IF ok
                THEN /\ downloaded' = "True"
                     /\ dpc' = "returned"
                ELSE UNCHANGED <<downloaded, dpc>>
    /\ UNCHANGED <<episode_servers, preferred_servers, skip_servers, valid_urls>>

\* Lines 483-484: every candidate failed.
AllServersFailed ==
    /\ dpc = "loop"
    /\ UNCHANGED NotDE
    /\ Len(tried) = Len(valid_urls)
    /\ downloaded' = "False"
    /\ dpc' = "returned"
    /\ UNCHANGED <<episode_servers, preferred_servers, skip_servers, valid_urls, tried>>

DENext ==
    \/ Candidates
    \/ TryServer
    \/ AllServersFailed

(***************************************************************************)
(* Both scrapers: the network calls and their timeouts                     *)
(***************************************************************************)
\* Every requests / session call of the two files: the function, the line, and
\* the timeout in seconds that the call passes (None when it passes none).
StardimaCalls ==
    {[fn |-> "get_new_stardima_show", line |-> 67, timeout |-> 10],
     [fn |-> "get_new_stardima_show", line |-> 83, timeout |-> 10],
     [fn |-> "get_new_stardima_seasons", line |-> 110, timeout |-> 10],
     [fn |-> "get_new_stardima_episodes", line |-> 131, timeout |-> 10],
     [fn |-> "get_new_stardima_episodes", line |-> 136, timeout |-> 15],
     [fn |-> "fetch_new_episode", line |-> 161, timeout |-> 10],
     [fn |-> "get_show_info", line |-> 201, timeout |-> None],
     [fn |-> "get_show_info", line |-> 213, timeout |-> None],
     [fn |-> "search_episodes", line |-> 240, timeout |-> None],
     [fn |-> "search_episodes", line |-> 263, timeout |-> None],
     [fn |-> "resolve_hyperwatching", line |-> 305, timeout |-> 10],
     [fn |-> "resolve_hyperwatching", line |-> 326, timeout |-> 10],
     [fn |-> "get_video_urls", line |-> 355, timeout |-> 10]}
DimakidsCalls ==
    {[fn |-> "get_soup", line |-> 25, timeout |-> 15],
     [fn |-> "download_with_custom_progress", line |-> 69, timeout |-> 15],
     [fn |-> "download_with_custom_progress", line |-> 86, timeout |-> 30]}
NetworkCalls == StardimaCalls \cup DimakidsCalls
NoCall == [fn |-> "", line |-> 0, timeout |-> None]

NCInit ==
    /\ call \in NetworkCalls
    /\ server \in {"answers", "refuses", "silent"}
    /\ elapsed = 0
    /\ ncpc = "calling"

NCIdle ==
    /\ call = NoCall
    /\ server = "idle"
    /\ elapsed = 0
    /\ ncpc = "idle"

\* The request is sent.
SendRequest ==
    /\ ncpc = "calling"
    /\ UNCHANGED NotNC
    /\ ncpc' = "waiting"
    /\ UNCHANGED <<call, server, elapsed>>

\* The server answers: the call returns.
Answer ==
    /\ ncpc = "waiting"
    /\ UNCHANGED NotNC
    /\ server = "answers"
    /\ ncpc' = "returned"
    /\ UNCHANGED <<call, server, elapsed>>

\* The connection fails: the call raises.
Refuse ==
    /\ ncpc = "waiting"
    /\ UNCHANGED NotNC
    /\ server = "refuses"
    /\ ncpc' = "raised"
    /\ UNCHANGED <<call, server, elapsed>>

\* The server stays silent and a second passes; a call with a timeout waits no
\* longer than it, a call without one waits on (the model stops counting at
\* MaxWait).
Wait ==
    /\ ncpc = "waiting"
    /\ UNCHANGED NotNC
    /\ server = "silent"
    /\ elapsed < (IF call.timeout # None THEN call.timeout ELSE MaxWait)
    /\ elapsed' = elapsed + 1
    /\ UNCHANGED <<call, server, ncpc>>

\* requests raises Timeout when the timeout of the call has passed.
TimedOut ==
    /\ ncpc = "waiting"
    /\ UNCHANGED NotNC
    /\ server = "silent"
    /\ call.timeout # None
    /\ elapsed = call.timeout
    /\ ncpc' = "raised"
    /\ UNCHANGED <<call, server, elapsed>>

NCNext ==
    \/ SendRequest
    \/ Answer
    \/ Refuse
    \/ Wait
    \/ TimedOut

(***************************************************************************)
(* stardima: the sort of the results in main (lines 617-624)               *)
(***************************************************************************)
\* The 'episode' labels of the results: parse_episode_key and
\* fetch_new_episode make "S{season}E{number}", parse_episode_key makes
\* "E{ep_id}" for a slug without season and episode.
SxELabels == { <<"S", "1", "E", "2">>, <<"S", "1", "E", "1", "0">>, <<"S", "2", "E", "1">> }
\* "E{ep_id}", which the pattern of the sort key does not match
OtherLabel == <<"E">>
EpisodeLabels == SxELabels \cup {OtherLabel}

\* Two runs over the same episodes, whose tasks complete in any order: the
\* results of each run are kept in the order of completion.
Orders(n) == {o \in [1..n -> 1..n] : \A i, j \in 1..n : i # j => o[i] # o[j]}

\* Lines 619-622: re.match(r'S(\d+)E(\d+)', x['episode']), then
\* (int(group 1), int(group 2)), or (999, post_id) without a match.
NoLabelSeason == 999
DigitsFrom(str, i) ==
    CHOOSE j \in (i - 1)..Len(str) :
        /\ \A k \in i..j : IsDigit(str[k])
        /\ j = Len(str) \/ ~IsDigit(str[j + 1])
MutSortKey(x) == <<NoLabelSeason, x.post_id>>
SortKey(x) ==
    LET str == x.episode
        s == DigitsFrom(str, 2)
        e == DigitsFrom(str, s + 2)
    IN  IF /\ Len(str) >= 1 /\ str[1] = "S"
           /\ s >= 2
           /\ s + 1 <= Len(str) /\ str[s + 1] = "E"
           /\ e >= s + 2
           THEN <<ToInt(SubSeq(str, 2, s)), ToInt(SubSeq(str, s + 2, e))>>
           ELSE <<NoLabelSeason, x.post_id>>

\* The order of Python tuples.
TupleLess(a, b) == a[1] < b[1] \/ (a[1] = b[1] /\ a[2] < b[2])

\* list.sort(key=sort_key): a stable sort.
RECURSIVE SortResultsBy(_)
SortResultsBy(rs) ==
    IF rs = <<>> THEN <<>>
    ELSE LET k == CHOOSE i \in DOMAIN rs :
                     /\ \A h \in DOMAIN rs : ~TupleLess(SortKey(rs[h]), SortKey(rs[i]))
                     /\ \A h \in 1..(i - 1) : SortKey(rs[h]) # SortKey(rs[i])
             rest == [h \in 1..(Len(rs) - 1) |-> IF h < k THEN rs[h] ELSE rs[h + 1]]
         IN <<rs[k]>> \o SortResultsBy(rest)

SRInit ==
    /\ \E n \in 1..MaxResults : \E labels \in [1..n -> EpisodeLabels] :
       \E oa \in Orders(n), ob \in Orders(n) :
          /\ results_a = [i \in 1..n |-> [post_id |-> oa[i], episode |-> labels[oa[i]]]]
          /\ results_b = [i \in 1..n |-> [post_id |-> ob[i], episode |-> labels[ob[i]]]]
    /\ completed_a = results_a
    /\ completed_b = results_b
    /\ srpc = "collected"

SRIdle ==
    /\ results_a = <<>>
    /\ results_b = <<>>
    /\ completed_a = <<>>
    /\ completed_b = <<>>
    /\ srpc = "idle"

\* Line 624: results.sort(key=sort_key), in each of the two runs.
SortResults ==
    /\ srpc = "collected"
    /\ UNCHANGED NotSR
    /\ results_a' = SortResultsBy(results_a)
    /\ results_b' = SortResultsBy(results_b)
    /\ srpc' = "sorted"
    /\ UNCHANGED <<completed_a, completed_b>>

SRNext ==
    \/ SortResults

(***************************************************************************)
(* dimakids: the scrape, the selection and the resolution of process_page  *)
(* (lines 140-191)                                                         *)
(***************************************************************************)
\* Lines 145-153: a div of class 'movie' gives an episode when it has a link
\* and a badge whose text holds a number; any other div is passed over.
MovieDivs == {[usable |-> TRUE, num |-> n] : n \in 0..MaxBadge}
                \cup {[usable |-> FALSE, num |-> 0]}
Pages == UNION {[1..n -> MovieDivs] : n \in 0..MaxScraped}

\* Lines 145-152: the episodes of a page, in the order of its divs; the link of
\* an episode is named by the place of its div.
RECURSIVE Scraped(_, _)
Scraped(divs, k) ==
    IF k > Len(divs) THEN <<>>
    ELSE (IF divs[k].usable THEN <<[num |-> divs[k].num, link |-> k]>> ELSE <<>>)
            \o Scraped(divs, k + 1)

\* Line 165: what the user types at the prompt.
Choices == {<<"a", "l", "l">>, <<"A", "l", "l">>, <<"b">>, <<>>, <<"x">>,
            <<"1">>, <<"2">>, <<"4">>, <<"1", "-", "3">>, <<"2", ",", "4">>,
            <<"0", "-", "9">>}

\* Lines 117-129: parse_episode_selection as a function of its two arguments.
ParseEpisodeSelection(input, total) ==
    IF Lower(input) = <<"a", "l", "l">> THEN [i \in 1..total |-> i]
    ELSE LET ps == Split(RemoveSpaces(input), ",") IN
         Sorted(UNION {Selected(ps[i], total) : i \in DOMAIN ps})

\* Line 180: next((ep for ep in episodes_list if ep['num'] == num), None), as
\* the place of the episode in episodes_list, 0 for None.
MutEpData(list, num) == IF num \in DOMAIN list THEN num ELSE 0
EpData(list, num) ==
    IF \E k \in DOMAIN list : list[k].num = num
       THEN CHOOSE k \in DOMAIN list :
               list[k].num = num /\ \A h \in 1..(k - 1) : list[h].num # num
       ELSE 0

SLInit ==
    /\ episodes_list = <<>>
    /\ is_movie = FALSE
    /\ user_choice = <<>>
    /\ selected_numbers = <<>>
    /\ sel_i = 1
    /\ resolved_list = <<>>
    /\ visited = <<>>
    /\ slpc = "scrape"

SLIdle ==
    /\ episodes_list = <<>>
    /\ is_movie = FALSE
    /\ user_choice = <<>>
    /\ selected_numbers = <<>>
    /\ sel_i = 1
    /\ resolved_list = <<>>
    /\ visited = <<>>
    /\ slpc = "idle"

\* Lines 140-155: a page without the container 'moviesBlocks' is a movie, and
\* its one episode has number 1 and the link of the page itself (place 0).
Scrape ==
    /\ slpc = "scrape"
    /\ UNCHANGED NotSL
    /\ \/ /\ is_movie' = TRUE
          /\ episodes_list' = <<[num |-> 1, link |-> 0]>>
       \/ /\ is_movie' = FALSE
          /\ \E divs \in Pages : episodes_list' = Scraped(divs, 1)
    /\ slpc' = "scraped"
    /\ UNCHANGED <<user_choice, selected_numbers, sel_i, resolved_list, visited>>

\* Lines 160-162: a page without episodes ends process_page.
NoEpisodes ==
    /\ slpc = "scraped"
    /\ UNCHANGED NotSL
    /\ episodes_list = <<>>
    /\ slpc' = "no_episodes"
    /\ UNCHANGED <<episodes_list, is_movie, user_choice, selected_numbers, sel_i,
                   resolved_list, visited>>

\* Lines 164-173: a movie selects [1] without a prompt; otherwise 'b' goes
\* back, and any other input is parsed against len(episodes_list).  An empty
\* selection ends process_page.
Select ==
    /\ slpc = "scraped"
    /\ UNCHANGED NotSL
    /\ episodes_list # <<>>
    /\ IF is_movie
          THEN /\ selected_numbers' = <<1>>
               /\ slpc' = "resolve"
               /\ UNCHANGED user_choice
          ELSE \E choice \in Choices :
                  /\ user_choice' = choice
                  /\ IF Lower(choice) = <<"b">>
                        THEN /\ slpc' = "back"
                             /\ UNCHANGED selected_numbers
                        ELSE /\ selected_numbers' =
                                   ParseEpisodeSelection(choice, Len(episodes_list))
                             /\ slpc' = IF selected_numbers' = <<>>
                                           THEN "none_selected" ELSE "resolve"
    /\ UNCHANGED <<episodes_list, is_movie, sel_i, resolved_list, visited>>

\* Lines 178-187: one selected number.  A number that no episode carries is
\* passed over; otherwise the page of the episode is fetched (for a movie the
\* page already at hand is used) and the number is appended when a link is found
\* in it.
Resolve ==
    /\ slpc = "resolve"
    /\ UNCHANGED NotSL
    /\ sel_i <= Len(selected_numbers)
    /\ LET num == selected_numbers[sel_i]
           ep_data == EpData(episodes_list, num)
       IN IF ep_data # 0
             THEN /\ visited' = IF is_movie THEN visited
                                ELSE Append(visited, episodes_list[ep_data].link)
                  /\ \E direct_link \in BOOLEAN :
                        resolved_list' =
                           IF direct_link
                              THEN Append(resolved_list,
                                          [num |-> num,
                                           page_link |-> episodes_list[ep_data].link])
                              ELSE resolved_list
             ELSE UNCHANGED <<visited, resolved_list>>
    /\ sel_i' = sel_i + 1
    /\ UNCHANGED <<episodes_list, is_movie, user_choice, selected_numbers, slpc>>

\* Lines 189-191: the end of the loop; an empty final_download_list ends
\* process_page.
EndResolve ==
    /\ slpc = "resolve"
    /\ UNCHANGED NotSL
    /\ sel_i > Len(selected_numbers)
    /\ slpc' = IF resolved_list = <<>> THEN "none_resolved" ELSE "resolved"
    /\ UNCHANGED <<episodes_list, is_movie, user_choice, selected_numbers, sel_i,
                   resolved_list, visited>>

SLNext ==
    \/ Scrape
    \/ NoEpisodes
    \/ Select
    \/ Resolve
    \/ EndResolve

(***************************************************************************)
(* Specifications: one per subsystem, the others idle                      *)
(***************************************************************************)
InitDL == DLInit /\ SEIdle /\ RSIdle /\ PLIdle /\ RNIdle /\ PSIdle /\ XSIdle /\ DEIdle /\ NCIdle /\
          SRIdle /\ SLIdle
SpecDL == InitDL /\ [][DLNext]_vars

InitSE == SEInit /\ DLIdle /\ RSIdle /\ PLIdle /\ RNIdle /\ PSIdle /\ XSIdle /\ DEIdle /\ NCIdle /\
          SRIdle /\ SLIdle
SpecSE == InitSE /\ [][SENext]_vars

InitRS == RSInit /\ DLIdle /\ SEIdle /\ PLIdle /\ RNIdle /\ PSIdle /\ XSIdle /\ DEIdle /\ NCIdle /\
          SRIdle /\ SLIdle
SpecRS == InitRS /\ [][RSNext]_vars

InitPL == PLInit /\ DLIdle /\ SEIdle /\ RSIdle /\ RNIdle /\ PSIdle /\ XSIdle /\ DEIdle /\ NCIdle /\
          SRIdle /\ SLIdle
SpecPL == InitPL /\ [][PLNext]_vars

InitRN == RNInit /\ DLIdle /\ SEIdle /\ RSIdle /\ PLIdle /\ PSIdle /\ XSIdle /\ DEIdle /\ NCIdle /\
          SRIdle /\ SLIdle
SpecRN == InitRN /\ [][RNNext]_vars

InitPS == PSInit /\ DLIdle /\ SEIdle /\ RSIdle /\ PLIdle /\ RNIdle /\ XSIdle /\ DEIdle /\ NCIdle /\
          SRIdle /\ SLIdle
SpecPS == InitPS /\ [][PSNext]_vars

InitXS == XSInit /\ DLIdle /\ SEIdle /\ RSIdle /\ PLIdle /\ RNIdle /\ PSIdle /\ DEIdle /\ NCIdle /\
          SRIdle /\ SLIdle
SpecXS == InitXS /\ [][XSNext]_vars

InitDE == DEInit /\ DLIdle /\ SEIdle /\ RSIdle /\ PLIdle /\ RNIdle /\ PSIdle /\ XSIdle /\ NCIdle /\
          SRIdle /\ SLIdle
SpecDE == InitDE /\ [][DENext]_vars

InitNC == NCInit /\ DLIdle /\ SEIdle /\ RSIdle /\ PLIdle /\ RNIdle /\ PSIdle /\ XSIdle /\ DEIdle /\
          SRIdle /\ SLIdle
SpecNC == InitNC /\ [][NCNext]_vars

InitSR == SRInit /\ DLIdle /\ SEIdle /\ RSIdle /\ PLIdle /\ RNIdle /\ PSIdle /\ XSIdle /\ DEIdle /\
          NCIdle /\ SLIdle
SpecSR == InitSR /\ [][SRNext]_vars

InitSL == SLInit /\ DLIdle /\ SEIdle /\ RSIdle /\ PLIdle /\ RNIdle /\ PSIdle /\ XSIdle /\ DEIdle /\
          NCIdle /\ SRIdle
SpecSL == InitSL /\ [][SLNext]_vars

\* process_page runs on: a step that can be taken is taken (every request of
\* the loop has a timeout and every handler returns).
SpecDLFair == SpecDL /\ WF_vars(DLNext)

(***************************************************************************)
(* Claims about the dimakids download loop (SpecDL)                        *)
(***************************************************************************)
Processed == Range(downloaded_eps) \cup Range(failed_eps)
InTransfer == pc \in {"download", "segments", "move"}
OneTo(n) == [i \in 1..n |-> i]

\* C1: every episode of the download list is attempted at most 3 times and ends
\* in exactly one of Downloaded or Failed; a transport that fails on attempts 1
\* and 2 and succeeds on attempt 3 gives Downloaded with attempts = 3, one that
\* fails on every attempt gives Failed with attempts = 3.
C1_RetryBound ==
    /\ attempt <= max_retries
    /\ Len(downloaded_eps) + Len(failed_eps) = Cardinality(Processed)
    /\ Range(downloaded_eps) \cap Range(failed_eps) = {}
    /\ pc = "done" => Processed = {final_download_list[i].num : i \in DOMAIN final_download_list}
    /\ \A n \in Nums :
          /\ attempts[n] <= max_retries
          /\ Len(xfer_log[n]) <= max_retries
          /\ n \in Processed /\ xfer_log[n] = <<FALSE, FALSE, TRUE>>
                => n \in Range(downloaded_eps) /\ attempts[n] = 3
          /\ n \in Processed /\ xfer_log[n] = <<FALSE, FALSE, FALSE>>
                => n \in Range(failed_eps) /\ attempts[n] = 3

C1_Witness ==
    /\ pc = "done"
    /\ \E n \in Range(downloaded_eps) : xfer_log[n] = <<FALSE, FALSE, TRUE>> /\ attempts[n] = 3
    /\ \E n \in Range(failed_eps) : xfer_log[n] = <<FALSE, FALSE, FALSE>> /\ attempts[n] = 3

\* The part of C2 about a link that cannot be re-resolved: the episode is Failed
\* at once and no further transfer is started for it.
RefreshNoneIsFinal ==
    \A n \in Nums : refresh_none[n] =>
        /\ n \in Range(failed_eps)
        /\ n \notin Range(downloaded_eps)
        /\ xfers[n] = attempts[n] - 1
        /\ Len(xfer_log[n]) = xfers[n]
        /\ ~(InTransfer /\ item.num = n)

\* C2 as stated: a retry transfers from the re-resolved URL, and that URL is
\* never the URL that has just failed.
C2_NeverTheFailedUrl ==
    /\ InTransfer /\ attempt > 1 =>
          /\ refreshed # None
          /\ current_url = refreshed
          /\ current_url # failed_url
    /\ RefreshNoneIsFinal

\* C2 as amended: after a failed attempt the link is re-resolved before any
\* further transfer and the retry transfers from the URL that the re-resolution
\* returned (which can be the same URL as the one that failed, when the page
\* still serves it); when nothing is re-resolved the episode is Failed at once
\* and no further transfer is started for it.
C2_RetryUsesRefreshedUrl ==
    /\ InTransfer /\ attempt > 1 =>
          /\ refreshed # None
          /\ current_url = refreshed
          /\ failed_url # None
    /\ RefreshNoneIsFinal

C2_Witness ==
    /\ pc = "segments"
    /\ attempt = 2
    /\ current_url = refreshed
    /\ current_url # failed_url
    /\ \E n \in Nums : refresh_none[n] /\ attempts[n] = 2 /\ xfers[n] = 1

C4_SegmentFailureAborts ==
    /\ \A k \in DOMAIN fetch_log : ~fetch_log[k].ok => k = Len(fetch_log)
    /\ fetch_log # <<>> /\ ~fetch_log[Len(fetch_log)].ok =>
          /\ pc = "while"
          /\ ~download_successful
          /\ ~tmp[item.num].exists
          /\ ~final[item.num].exists
          /\ xfer_log[item.num] # <<>>
          /\ ~xfer_log[item.num][Len(xfer_log[item.num])]

C4_Witness ==
    /\ Len(fetch_log) = 2
    /\ fetch_log[1].ok
    /\ ~fetch_log[2].ok
    /\ total_segments = 3
    /\ pc = "while"
    /\ attempt = 1

(***************************************************************************)
(* Claims about search_episodes (SpecSE)                                   *)
(***************************************************************************)
RECURSIVE TrailingMisses(_)
TrailingMisses(log) ==
    IF log = <<>> \/ log[Len(log)] = "hit" THEN 0
    ELSE 1 + TrailingMisses(SubSeq(log, 1, Len(log) - 1))

SeasonDone(s) == spc = "done" \/ (spc = "probe" /\ s < season)
EntriesOf(s) == {id \in episodes : id[1] = s}
\* The site answers a hit for episodes 1..n of season s and a miss for all others.
ExactlyFirst(s, n) == site[s].len = n /\ site[s].gap = 0

\* C5: no probe of a season follows 3 consecutive misses of that season, a hit
\* resets the count, and a season whose episodes 1..n exist (n = 12 in the
\* claim) ends with exactly n entries and no probe beyond episode n + 3 (15).
C5_ProbingStops ==
    /\ spc = "probe" =>
          /\ consecutive_misses < MissLimit
          /\ consecutive_misses = TrailingMisses(probe_log[season])
          /\ ep_num = Len(probe_log[season]) + 1
    /\ \A s \in Seasons :
          LET log == probe_log[s] IN
          /\ Len(log) <= LastEpisode
          /\ \A k \in DOMAIN log :
                k > MissLimit => \E j \in (k - MissLimit)..(k - 1) : log[j] = "hit"
          /\ \A n \in 0..(LastEpisode - MissLimit) :
                SeasonDone(s) /\ ExactlyFirst(s, n) =>
                   /\ EntriesOf(s) = {<<s, e>> : e \in 1..n}
                   /\ Len(log) = n + MissLimit
          /\ SeasonDone(s) /\ ExactlyFirst(s, 12) =>
                /\ Cardinality(EntriesOf(s)) = 12
                /\ Len(log) <= 15

C5_Witness ==
    /\ spc = "done"
    /\ \E s \in Seasons :
          /\ ExactlyFirst(s, 12)
          /\ Cardinality(EntriesOf(s)) = 12
          /\ Len(probe_log[s]) = 15
          /\ probe_log[s][12] = "hit"
          /\ probe_log[s][15] = "miss"

(***************************************************************************)
(* Claims about the Link Resolver (SpecRS)                                 *)
(***************************************************************************)
\* C6: every resolved episode result has its server-name keys from exactly one
\* of the two fixed name sets: the 5 wrapped names when it is flagged
\* is_hyperwatching, the 5 standard names when it is not.
C6_NamesFromOneSet ==
    ~result.none =>
        DOMAIN result.servers =
            IF result.is_hyperwatching THEN Range(SERVER_NAMES_HYPERWATCHING)
                                       ELSE Range(SERVER_NAMES_STANDARD)

\* C7: when the decoded embed URL of any server slot is a wrapper URL,
\* get_video_urls runs resolve_hyperwatching on that URL and returns with the
\* wrapper flag set, whatever the other slots gave.
C7_WrapperAlwaysDeferred ==
    rmode = "legacy" /\ rpc = "done" =>
        \A i \in DOMAIN decoded :
            IsWrapper(decoded[i]) =>
                /\ result.is_hyperwatching
                /\ decoded[i] \in Range(unwrapped)

(***************************************************************************)
(* Claims about the resolution pool (SpecPL)                               *)
(***************************************************************************)
PostIds(rs) == {rs[i].post_id : i \in DOMAIN rs}

\* C8: a task that fails never cancels a sibling or keeps it from being
\* collected: every submitted episode is collected exactly once, as a result or
\* as a failure, and when the pass ends results + failures is the number of
\* submitted episodes.
C8_EveryTaskCollected ==
    /\ Len(yielded) = Cardinality(Range(yielded))
    /\ Len(pool_results) = Cardinality(PostIds(pool_results))
    /\ Len(pool_results) + failures = Len(yielded)
    /\ \A e \in Range(yielded) :
          /\ task[e].st = "finished"
          /\ e \in PostIds(pool_results) <=> ~(pmode = "new" /\ task[e].out = "none")
    /\ ppc = "done" =>
          /\ Range(yielded) = DOMAIN task
          /\ Len(pool_results) + failures = Len(task)

C8_Witness ==
    /\ ppc = "done"
    /\ Len(task) = 3
    /\ failures = 1
    /\ task[yielded[1]].out = "none"
    /\ Len(pool_results) = 2

(***************************************************************************)
(* Claims about one run of main (SpecRN)                                   *)
(***************************************************************************)
\* C9: no failing sub-request of discovery or resolution ends the run: it is
\* skipped; the run is aborted only when no episode at all was found.
C9_NoSubRequestEndsTheRun ==
    /\ run_state # "crashed"
    /\ run_state = "exit1" => exit_reason = "no_episodes" /\ found = 0

(***************************************************************************)
(* Claims about parse_episode_selection (SpecPS)                           *)
(***************************************************************************)
\* The selection grammar, read off the input: the tokens between the commas
\* (spaces dropped), an integer token, a range token a-b, and the numbers a
\* token stands for.
Tokens == Split(RemoveSpaces(user_input), ",")
IntToken(t) == t # <<>> /\ \A i \in DOMAIN t : IsDigit(t[i])
RangeToken(t) ==
    \E d \in DOMAIN t :
        /\ t[d] = "-"
        /\ IntToken(SubSeq(t, 1, d - 1))
        /\ IntToken(SubSeq(t, d + 1, Len(t)))
Malformed(t) == ~IntToken(t) /\ ~RangeToken(t)
StandsFor(t, k) ==
    \/ IntToken(t) /\ ToInt(t) = k
    \/ \E d \in DOMAIN t :
          /\ t[d] = "-"
          /\ IntToken(SubSeq(t, 1, d - 1))
          /\ IntToken(SubSeq(t, d + 1, Len(t)))
          /\ ToInt(SubSeq(t, 1, d - 1)) <= k
          /\ k <= ToInt(SubSeq(t, d + 1, Len(t)))
\* A well-formed token that names a number outside 1..total_episodes.
OutOfRange(t) ==
    /\ ~Malformed(t)
    /\ \E k \in 0..ToInt(SelectSeq(t, IsDigit)) : StandsFor(t, k) /\ ~(1 <= k /\ k <= total_episodes)
IsAll == Lower(user_input) = <<"a", "l", "l">>

\* What C10 says of the returned list: strictly increasing, within
\* 1..total_episodes, 1..total_episodes for 'all', and otherwise exactly the
\* in-range numbers that the tokens stand for; while the parts are worked
\* through, a malformed token takes nothing away from what the tokens
\* before it selected and does not stop the tokens after it.
SelectionIsRight ==
    /\ sel_pc = "returned" =>
          /\ \A i \in DOMAIN selection : 1 <= selection[i] /\ selection[i] <= total_episodes
          /\ \A i, j \in DOMAIN selection : i < j => selection[i] < selection[j]
          /\ IsAll => selection = [i \in 1..total_episodes |-> i]
          /\ ~IsAll => Range(selection) =
                {k \in 1..total_episodes : \E i \in DOMAIN Tokens : StandsFor(Tokens[i], k)}
    /\ sel_pc = "loop" =>
          LET done == Len(Tokens) - Len(parts) IN
          /\ parts = SubSeq(Tokens, done + 1, Len(Tokens))
          /\ selected_episodes =
                {k \in 1..total_episodes : \E i \in 1..done : StandsFor(Tokens[i], k)}

LegacySlugPieces == {"www.stardima.com", "witch", "7", "-1x1"}
NewSlugPieces == LegacySlugPieces \cup {"#"}
SlugFrom(start, Pieces) ==
    {g \in {SubSeq(url, start, j) : j \in start..Len(url)} :
        /\ \A k \in DOMAIN g : g[k] \in Pieces
        /\ start + Len(g) <= Len(url) => url[start + Len(g)] \notin Pieces}
NewSitePlaces ==
    {i \in DOMAIN url : /\ url[i] = "www.stardima.com"
                        /\ i + 1 <= Len(url) /\ url[i + 1] = "/tvshow/"
                        /\ SlugFrom(i + 2, NewSlugPieces) # {}}
ShowPagePlaces ==
    {i \in DOMAIN url : url[i] = "/tvshows/" /\ SlugFrom(i + 1, LegacySlugPieces) # {}}
EpisodePagePlaces ==
    {i \in DOMAIN url : url[i] = "/episodes/" /\ SlugFrom(i + 1, LegacySlugPieces) # {}}
First(S) == CHOOSE i \in S : \A h \in S : i <= h
\* The digits after "/play/" that follows the slug g found at start, if any.
EpisodeIdAfter(start, g) ==
    LET p == start + Len(g) IN
    IF p + 1 <= Len(url) /\ url[p] = "/play/" /\ url[p + 1] = "7"
       THEN CHOOSE d \in {SubSeq(url, p + 1, j) : j \in (p + 1)..Len(url)} :
                /\ \A k \in DOMAIN d : d[k] = "7"
                /\ p + 1 + Len(d) <= Len(url) => url[p + 1 + Len(d)] # "7"
       ELSE NoGroup
Sevens(n) == [k \in 1..n |-> "7"]
\* g is s followed by a '-{season}x{episode}' suffix, or g has no such suffix
\* and is s.
Stripped(g, s) ==
    \/ \E n \in 0..Len(g) : g = s \o <<"-1x1">> \o Sevens(n)
    \/ /\ g = s
       /\ ~\E n \in 0..Len(g), t \in {SubSeq(g, 1, j) : j \in 0..Len(g)} :
               g = t \o <<"-1x1">> \o Sevens(n)

\* C11: extract_slug returns the tuple of the first layout, in the order new
\* site, legacy show page, legacy episode page, that occurs in the URL: the
\* slug of its leftmost occurrence (for an episode page with the trailing
\* '-{season}x{episode}' suffix stripped) and, for the new site, the episode id
\* after '/play/' or None; the tuple (None, None, None) when no layout occurs;
\* and every call returns.
C11_FirstLayoutWins ==
    /\ xpc = "call" => ENABLED XSNext
    /\ xpc = "returned" =>
          IF NewSitePlaces # {}
             THEN /\ extracted.url_type = "new_stardima"
                  /\ extracted.slug \in SlugFrom(First(NewSitePlaces) + 2, NewSlugPieces)
                  /\ extracted.ep_id =
                        EpisodeIdAfter(First(NewSitePlaces) + 2, extracted.slug)
          ELSE IF ShowPagePlaces # {}
             THEN /\ extracted.url_type = "tvshow"
                  /\ extracted.slug \in SlugFrom(First(ShowPagePlaces) + 1, LegacySlugPieces)
                  /\ extracted.ep_id = NoGroup
          ELSE IF EpisodePagePlaces # {}
             THEN /\ extracted.url_type = "episode"
                  /\ \E g \in SlugFrom(First(EpisodePagePlaces) + 1, LegacySlugPieces) :
                        Stripped(g, extracted.slug)
                  /\ extracted.ep_id = NoGroup
          ELSE extracted = [slug |-> NoGroup, url_type |-> "None", ep_id |-> NoGroup]

\* A URL in which both the new-site layout and the legacy show-page layout
\* occur is returned as a new-site URL.
C11_Witness ==
    /\ xpc = "returned"
    /\ NewSitePlaces # {}
    /\ ShowPagePlaces # {}
    /\ extracted.url_type = "new_stardima"
    /\ extracted.slug = <<"7">>

(***************************************************************************)
(* Claims about resolve_hyperwatching (SpecRS)                             *)
(***************************************************************************)
Succeeded == {link_log[i][1] : i \in {k \in DOMAIN link_log : link_log[k][2]}}
Returned12 == rpc \in {"resolved", "done"} /\ unwrapped # <<>>

\* C12: resolve_hyperwatching always returns, and never an empty mapping: the
\* result holds the URL of every server whose link request gave one and of no
\* other server, and when no server gave one (the iframe fetch failed, the page
\* had no server list, or every link request failed) it is exactly
\* {hyperwatching -> the iframe URL}.
C12_NeverEmpty ==
    /\ rpc \in {"iframe", "links"} => ENABLED (FetchIframe \/ LinkRequest)
    /\ Returned12 =>
          /\ resolved # EmptyDict
          /\ IF Succeeded = {}
                THEN /\ DOMAIN resolved = {"hyperwatching"}
                     /\ resolved["hyperwatching"] = hyperwatching_url
                ELSE /\ DOMAIN resolved = Succeeded
                     /\ \A n \in Succeeded : resolved[n] = LinkUrl(hyperwatching_url.id, n)

\* One link request failed, a later one gave a URL, and the result holds the
\* later server only.
C12_Witness ==
    /\ Returned12
    /\ Len(link_log) = 2
    /\ ~link_log[1][2]
    /\ link_log[2][2]
    /\ link_log[1][1] # link_log[2][1]
    /\ DOMAIN resolved = {link_log[2][1]}

(***************************************************************************)
(* Claims about download_episode (SpecDE)                                  *)
(***************************************************************************)
\* Read off the call's arguments: the servers that have a URL and are not named
\* in the skip list, whether a server is named in the preferred list, and
\* whether server a is to be tried before server b.
SameName(a, b) == LowerName(a) = LowerName(b)
Discovery(n) == CHOOSE i \in DOMAIN SERVER_NAMES_STANDARD : SERVER_NAMES_STANDARD[i] = n
IsCandidate(n) ==
    /\ \E i \in DOMAIN episode_servers : SERVER_NAMES_STANDARD[i] = n /\ episode_servers[i]
    /\ ~\E i \in DOMAIN skip_servers : SameName(skip_servers[i], n)
IsPreferred(n) == \E i \in DOMAIN preferred_servers : SameName(preferred_servers[i], n)
Before(a, b) ==
    \/ IsPreferred(a) /\ ~IsPreferred(b)
    \/ /\ IsPreferred(a) /\ IsPreferred(b)
       /\ \E i, j \in DOMAIN preferred_servers :
             i < j /\ SameName(preferred_servers[i], a) /\ SameName(preferred_servers[j], b)
    \/ ~IsPreferred(a) /\ ~IsPreferred(b) /\ Discovery(a) < Discovery(b)
TriedNames == {tried[i][1] : i \in DOMAIN tried}
AllCandidates == {n \in Range(SERVER_NAMES_STANDARD) : IsCandidate(n)}

\* C13: only servers with a URL that are not in the skip list are tried, each
\* at most once; preferred servers are tried before the others, in the order
\* of the preferred list, the others in discovery order, and no server is
\* tried while one that comes before it is untried; no server is tried after
\* one succeeded; the episode succeeds exactly when a server succeeded and
\* fails only when every candidate was tried and failed (or there is none).
C13_ServerOrder ==
    /\ \A i \in DOMAIN tried : IsCandidate(tried[i][1])
    /\ \A i, j \in DOMAIN tried : i < j =>
          /\ tried[i][1] # tried[j][1]
          /\ Before(tried[i][1], tried[j][1])
          /\ ~tried[i][2]
    /\ \A n \in AllCandidates \ TriedNames : \A i \in DOMAIN tried : Before(tried[i][1], n)
    /\ downloaded = "True" <=> \E i \in DOMAIN tried : tried[i][2]
    /\ downloaded = "False" =>
          /\ dpc = "returned"
          /\ TriedNames = AllCandidates
    /\ dpc = "returned" => downloaded # "pending"
    /\ dpc = "loop" => ENABLED (TryServer \/ AllServersFailed)

\* A skipped server with a URL is passed over, the preferred server fails
\* first, and the download succeeds on the server that follows.
C13_Witness ==
    /\ dpc = "returned"
    /\ downloaded = "True"
    /\ episode_servers = <<TRUE, TRUE, TRUE>>
    /\ skip_servers = <<"vudeo">>
    /\ preferred_servers = <<"mailru", "Uqload">>
    /\ tried = << <<"mailru", FALSE>>, <<"uqload", TRUE>> >>

(***************************************************************************)
(* Claims about the link export of process_page (SpecDL)                   *)
(***************************************************************************)
TransferBegun == \E n \in Nums : xfers[n] > 0 \/ tmp[n].exists
HoldsEveryLink ==
    /\ links_json.exists
    /\ links_json.title = "title"
    /\ DOMAIN links_json.episodes = {final_download_list[i].num : i \in DOMAIN final_download_list}
    /\ \A i \in DOMAIN final_download_list :
          links_json.episodes[final_download_list[i].num] = final_download_list[i].link

\* C14: links.json, holding the title and the resolved link of every episode
\* of the download list, is on disk before the first transfer begins and stays
\* there: when the user declines the download, during every transfer and
\* refresh, and after any download failed.
C14_LinksWrittenFirst ==
    /\ TransferBegun => HoldsEveryLink
    /\ pc \in {"confirm", "cancelled", "while", "refresh", "download", "segments", "move",
               "done"} => HoldsEveryLink
    /\ pc \in {"export", "raised", "confirm", "cancelled"} => ~TransferBegun
    /\ pc = "export" => ENABLED WriteLinks

\* Two episodes were resolved, links.json replaced the document of an earlier
\* run, and the download of an episode failed.
C14_Witness ==
    /\ pc = "done"
    /\ Len(final_download_list) = 2
    /\ failed_eps = <<1>>
    /\ downloaded_eps = <<2>>
    /\ HoldsEveryLink
    /\ links_json # OldDocument

(***************************************************************************)
(* Claims about the batch of the dimakids download loop (SpecDLFair)       *)
(***************************************************************************)
ListNums == {final_download_list[i].num : i \in DOMAIN final_download_list}
InExactlyOneList(n) ==
    /\ Cardinality({i \in DOMAIN downloaded_eps : downloaded_eps[i] = n})
         + Cardinality({i \in DOMAIN failed_eps : failed_eps[i] = n}) = 1
RecordedOnce ==
    /\ \A n \in Processed : n \in ListNums /\ InExactlyOneList(n)
    /\ Len(downloaded_eps) + Len(failed_eps) = Cardinality(Processed)

\* C15: once the download loop runs, whatever the transfers and refreshes do,
\* the loop reaches its end with every episode of the download list recorded
\* in exactly one of downloaded_eps and failed_eps, each after at least one
\* transfer of its own (so the episodes after a failed one are attempted).
C15_BatchNeverAborts ==
    /\ [](RecordedOnce)
    /\ [](pc = "done" => /\ Processed = ListNums
                         /\ \A n \in ListNums : xfers[n] >= 1)
    /\ (pc = "while") ~> (pc = "done")

\* The first episode used up its retries and failed, the second was still
\* downloaded.
C15_Witness ==
    /\ pc = "done"
    /\ Len(final_download_list) = 2
    /\ failed_eps = <<1>>
    /\ attempts[1] = max_retries
    /\ xfers[1] = max_retries
    /\ downloaded_eps = <<2>>

(***************************************************************************)
(* Claims about the failure path of download_with_custom_progress (SpecDL) *)
(***************************************************************************)
LastAttemptFailed(n) == xfer_log[n] # <<>> /\ ~xfer_log[n][Len(xfer_log[n])]
WritingAgain(n) == pc \in {"segments", "move"} /\ item.num = n

C16_EveryCallHasTimeout ==
    ncpc = "waiting" => call.timeout # None /\ elapsed <= 30

(***************************************************************************)
(* Claims about appending to the results of the pool (SpecPL)              *)
(***************************************************************************)
HasResult(e) == task[e].st = "finished" /\ task[e].out # "none"
\* The collected tasks that returned a result, in the order of collection.
KeptInOrder == SelectSeq(yielded, HasResult)

\* C17: whatever the order in which the worker tasks complete, the results
\* list holds the result of every collected task that returned one, each once,
\* unchanged and in the order of collection, and the progress counter has
\* taken the values 1, 2, ... once each, in increasing order, up to the number
\* of submitted tasks when the pass ends.
C17_ResultsAppendedOnce ==
    /\ Len(pool_results) = Len(KeptInOrder)
    /\ \A i \in DOMAIN pool_results :
          /\ pool_results[i].post_id = KeptInOrder[i]
          /\ pool_results[i].out = task[KeptInOrder[i]].out
    /\ progress = [i \in 1..Len(yielded) |-> i]
    /\ ppc = "done" => progress = [i \in 1..Len(task) |-> i]

\* Three tasks on two workers complete in another order than they were
\* submitted in.
C17_Witness ==
    /\ ppc = "done"
    /\ workers = 2
    /\ yielded = <<3, 1, 2>>
    /\ progress = <<1, 2, 3>>
    /\ Len(pool_results) = 3
    /\ pool_results[1].post_id = 3

(***************************************************************************)
(* Claims about the positions of the wrapper's servers (SpecRS)            *)
(***************************************************************************)
ThroughWrapper == rmode = "legacy" /\ rpc = "done" /\ unwrapped # <<>>
UrlOf(n) == IF n \in Succeeded THEN LinkUrl(hyperwatching_url.id, n) ELSE Absent

\* C18: when get_video_urls resolved through the wrapper, position 1 holds the
\* 'uqload' URL, position 2 the 'earnvids' URL if there is one and else the
\* 'streamhg' URL, position 3 'darkibox', position 4 'goodstream', and
\* position 5 the original iframe URL when no server resolved and nothing
\* otherwise; a position whose name the unwrapper did not return is absent.
C18_FixedPositions ==
    ThroughWrapper =>
        /\ Len(servers) = NumSlots
        /\ servers[1] = UrlOf("uqload")
        /\ servers[2] = IF "earnvids" \in Succeeded THEN UrlOf("earnvids") ELSE UrlOf("streamhg")
        /\ servers[3] = UrlOf("darkibox")
        /\ servers[4] = UrlOf("goodstream")
        /\ servers[5] = IF Succeeded = {} THEN hyperwatching_url ELSE Absent
        /\ result.is_hyperwatching
        /\ \A i \in 1..NumSlots : result.servers[SERVER_NAMES_HYPERWATCHING[i]] = servers[i]

\* The wrapper returned both 'earnvids' and 'streamhg': position 2 holds the
\* 'earnvids' URL and position 5 is absent.
C18_Witness ==
    /\ ThroughWrapper
    /\ Succeeded = {"earnvids", "streamhg"}
    /\ servers[2] = LinkUrl(hyperwatching_url.id, "earnvids")
    /\ servers[5] = Absent

(***************************************************************************)
(* Claims about the order of the results (SpecSR)                          *)
(***************************************************************************)
\* The (season, episode) that each label stands for; a label of another form
\* stands for none.
Labelled(x) == x.episode \in SxELabels
SeasonEpisode(x) ==
    CASE x.episode = <<"S", "1", "E", "2">> -> <<1, 2>>
      [] x.episode = <<"S", "1", "E", "1", "0">> -> <<1, 10>>
      [] x.episode = <<"S", "2", "E", "1">> -> <<2, 1>>
      [] OTHER -> <<999, x.post_id>>
Place(rs, id) == CHOOSE i \in DOMAIN rs : rs[i].post_id = id
InOrder(rs) ==
    /\ \A i, j \in DOMAIN rs : i < j =>
          \/ SeasonEpisode(rs[i])[1] < SeasonEpisode(rs[j])[1]
          \/ /\ SeasonEpisode(rs[i])[1] = SeasonEpisode(rs[j])[1]
             /\ SeasonEpisode(rs[i])[2] <= SeasonEpisode(rs[j])[2]
    /\ \A i, j \in DOMAIN rs : Labelled(rs[i]) /\ ~Labelled(rs[j]) => i < j
SameResults(rs, before) ==
    /\ Len(rs) = Len(before)
    /\ Range(rs) = Range(before)

\* C20: after the sort the results of a run are in non-decreasing order of
\* the (season, episode) of their labels, the results without such a label
\* after all the others; the sort loses and adds no result; and two results
\* with different sort keys stand in the same order in any two runs, whatever
\* the order in which the tasks of each run completed.
C20_SortedByEpisode ==
    srpc = "sorted" =>
        /\ InOrder(results_a) /\ InOrder(results_b)
        /\ SameResults(results_a, completed_a) /\ SameResults(results_b, completed_b)
        /\ \A x, y \in Range(results_a) :
              SeasonEpisode(x) # SeasonEpisode(y) =>
                  (Place(results_a, x.post_id) < Place(results_a, y.post_id)
                     <=> Place(results_b, x.post_id) < Place(results_b, y.post_id))

\* Two runs whose tasks completed in different orders: two results labelled
\* 'S1E2' have the same key and stay in completion order, 'S1E10' follows both
\* in both runs.
C20_Witness ==
    /\ srpc = "sorted"
    /\ Len(results_a) = 3
    /\ completed_a[1].episode = <<"S", "1", "E", "1", "0">>
    /\ results_a[3].episode = <<"S", "1", "E", "1", "0">>
    /\ results_b[3].episode = <<"S", "1", "E", "1", "0">>
    /\ results_a[1].episode = <<"S", "1", "E", "2">>
    /\ results_b[1].episode = <<"S", "1", "E", "2">>
    /\ results_a[1] = results_b[2]

(***************************************************************************)
(* Claims about the selection of process_page (SpecSL)                     *)
(***************************************************************************)
Count == Len(episodes_list)
Badges == {episodes_list[k].num : k \in DOMAIN episodes_list}
SelectionSet == Range(selected_numbers)
Handled == {selected_numbers[i] : i \in 1..(sel_i - 1)}
ResolvedNums == {resolved_list[i].num : i \in DOMAIN resolved_list}
FirstCarrier(n) ==
    CHOOSE k \in DOMAIN episodes_list :
       episodes_list[k].num = n /\ \A h \in 1..(k - 1) : episodes_list[h].num # n

\* C21: the selection holds only numbers from 1 to the count of scraped
\* episodes; every resolved episode has a badge number in that range that is in
\* the selection, and is the first scraped episode carrying it; a selected number
\* that no scraped episode carries is passed over without a fetch and without an
\* entry; and a scraped episode whose badge number is greater than the count is
\* never selected, fetched or resolved, whatever the input, 'all' included.
C21_SelectionBoundedByCount ==
    /\ \A n \in SelectionSet : 1 <= n /\ n <= Count
    /\ \A i \in DOMAIN resolved_list :
          LET n == resolved_list[i].num IN
             /\ 1 <= n /\ n <= Count
             /\ n \in SelectionSet
             /\ n \in Badges
             /\ resolved_list[i].page_link = episodes_list[FirstCarrier(n)].link
    /\ \A n \in Handled \ Badges : n \notin ResolvedNums
    /\ ~is_movie => Len(visited) = Cardinality(Handled \cap Badges)
    /\ \A v \in Range(visited) :
          \E n \in Handled \cap Badges : v = episodes_list[FirstCarrier(n)].link
    /\ \A k \in DOMAIN episodes_list :
          episodes_list[k].num > Count =>
             /\ episodes_list[k].num \notin SelectionSet
             /\ episodes_list[k].num \notin ResolvedNums
             /\ episodes_list[k].link \notin Range(visited)

\* The case of C21: the user typed 'all' on a page that has an episode whose
\* badge number is above the count and lacks one of the numbers up to the count;
\* the loop is over and it resolved an episode.
C21_Witness ==
    /\ slpc = "resolved"
    /\ Lower(user_choice) = <<"a", "l", "l">>
    /\ \E k \in DOMAIN episodes_list : episodes_list[k].num > Count
    /\ SelectionSet \ Badges # {}
    /\ resolved_list # <<>>

====
